---- MODULE Spec2Model ----
(***************************************************************************)
(* Withdrawal consistency core of poc-withdraw-api.                        *)
(*                                                                         *)
(* Each request of POST /withdrawals is a process that walks through the   *)
(* idempotency middleware (SQLXStore.Acquire), the withdraw handler, the   *)
(* service, the repository transaction and SQLXStore.Complete.  The two    *)
(* relational tables are modelled with PostgreSQL READ COMMITTED           *)
(* semantics: a statement sees committed rows only, a row lock taken by    *)
(* SELECT .. FOR UPDATE or UPDATE is held until the transaction ends, an   *)
(* INSERT into a unique index waits for a concurrent uncommitted insert of *)
(* the same key and fails once that insert is committed.                   *)
(*                                                                         *)
(* Strings are sequences of tokens, " " being the whitespace token, so     *)
(* that strings.TrimSpace is a computation.  Durations are in abstract     *)
(* ticks of the clock.                                                     *)
(***************************************************************************)
EXTENDS Integers, Sequences, FiniteSets, TLC

\* ------------------------------------------------------------------ bounds
\* last tick of the clock; one tick is the lock TTL of the idempotency store
MaxTime == 1
\* infrastructure failures (statement errors, cancelled contexts) per run
MaxFaults == 2
\* largest Limit and Window of a limiter configuration, Allow calls made on
\* the store directly and last clock reading of those calls
MaxLimit == 2
MaxWindow == 3
MaxCalls == 4
MaxRateTime == 3
\* how far the clock of an instance that calls the store lags behind
MaxSkew == 1
\* number of direct calls of withdrawRequestHash
MaxHashCalls == 3
\* balance_minor of the seeded wallet
InitBalance == 3

\* --------------------------------------------------------- program constants
defaultLockTTL == 1
\* defaultLockTTL is 30 * time.Second
SecondsPerTick == 30
StatusOK == 200
StatusBadRequest == 400
StatusUnauthorized == 401
StatusNotFound == 404
StatusConflict == 409
StatusTooManyRequests == 429
StatusInternalServerError == 500

\* two requests in flight, numbered in order of arrival
Procs == {1, 2}
WalletUser == <<"u1">>
OtherUser == <<"u2">>
UserIDs == {WalletUser, OtherUser}
Keys == {<<"k1">>, <<"k2">>}
Amounts == {1, 2}
Method == <<"POST">>
Path == <<"/api/v1/withdrawals">>
MIMEApplicationJSON == <<"application/json">>

VARIABLES
    clock,      \* time.Now() / now() of the shared database, in ticks
    wallets,    \* committed rows of table wallets, keyed by user_id
    ledger,     \* committed rows of table wallet_ledger, in commit order
    idem,       \* committed rows of withdraw_idempotency, keyed by <<scope, key>>
    pc,         \* position of each request in the pipeline
    req,        \* the request of each process: user_id local, header, body
    acq,        \* locals of SQLXStore.Acquire: now, lockUntil, existing row
    decision,   \* the Decision (or error) Acquire returned to the middleware
    wtx,        \* locals of the withdraw transaction: the RETURNING row
    hresp,      \* the response the handler wrote into the fiber context
    resp,       \* the response sent to the client
    faults,     \* number of infrastructure failures injected so far
    hist,       \* history of each request, read by the properties only
    rl,         \* keys of the rate-limit store (Redis), with their expiry
    rlalg,      \* the configured rate-limit algorithm string
    rlcfg,      \* the Config the limiter was built with
    calls,      \* the calls made directly on the store or on a function, in order
    headers     \* the headers the rate-limit middleware set on each response

vars == <<clock, wallets, ledger, idem, pc, req, acq, decision, wtx, hresp, resp, faults, hist,
          rl, rlalg, rlcfg, calls, headers>>

\* ------------------------------------------------------------------ strings
\* the white space strings.TrimSpace removes
IsSpace(c) == c \in {" ", "\t", "\n"}

RECURSIVE TrimLeft(_)
TrimLeft(s) == IF s # <<>> /\ IsSpace(Head(s)) THEN TrimLeft(Tail(s)) ELSE s

RECURSIVE TrimRight(_)
TrimRight(s) ==
    IF s # <<>> /\ IsSpace(s[Len(s)]) THEN TrimRight(SubSeq(s, 1, Len(s) - 1)) ELSE s

TrimSpace(s) == TrimRight(TrimLeft(s))

\* strings.ToUpper on the tokens that carry lower-case letters
ToUpperToken(t) ==
    IF t \in {"post", "Post"} THEN "POST"
    ELSE IF t = "get" THEN "GET"
    ELSE t

ToUpper(s) == [i \in 1..Len(s) |-> ToUpperToken(s[i])]

Digits == <<"0", "1", "2", "3", "4", "5", "6", "7", "8", "9">>

\* strconv.Itoa and strconv.FormatInt(n, 10): the decimal digits of n
RECURSIVE Itoa(_)
Itoa(n) ==
    IF n < 0 THEN <<"-">> \o Itoa(0 - n)
    ELSE IF n < 10 THEN <<Digits[n + 1]>>
    ELSE Itoa(n \div 10) \o <<Digits[(n % 10) + 1]>>

\* ------------------------------------------------------ ratelimit.RedisStore
\* Times and durations of the limiter are in the unit of its clock reading.
\* The token count is kept multiplied by the window, so that the refill of
\* limit/window tokens per unit of time stays in the integers.
AlgorithmTokenBucket == <<"token_bucket">>
AlgorithmSlidingWindow == <<"sliding_window">>
AlgorithmFixedWindow == <<"fixed_window">>

\* strings.ToLower on the tokens that carry upper-case letters
ToLowerToken(t) ==
    IF t \in {"SLIDING_WINDOW", "Sliding_Window"} THEN "sliding_window"
    ELSE IF t \in {"FIXED_WINDOW", "Fixed_Window"} THEN "fixed_window"
    ELSE IF t = "TOKEN_BUCKET" THEN "token_bucket"
    ELSE t

ToLower(s) == [i \in 1..Len(s) |-> ToLowerToken(s[i])]

\* (mutant) the configuration string is compared as written
parseRateLimitAlgorithm_AsWritten(value) ==
    IF value = <<"sliding_window">> THEN AlgorithmSlidingWindow
    ELSE IF value = <<"fixed_window">> THEN AlgorithmFixedWindow
    ELSE AlgorithmTokenBucket

\* parseRateLimitAlgorithm
parseRateLimitAlgorithm(value) ==
    LET v == TrimSpace(ToLower(value)) IN
    IF v = <<"sliding_window">> THEN AlgorithmSlidingWindow
    ELSE IF v = <<"fixed_window">> THEN AlgorithmFixedWindow
    ELSE AlgorithmTokenBucket

\* values math.random() can return
Rand == {1, 2}

Min(a, b) == IF a <= b THEN a ELSE b

\* ratelimit.New: the defaults it fills in
New(config) ==
    [config EXCEPT !.Algorithm = IF config.Algorithm = <<>> THEN AlgorithmTokenBucket
                                 ELSE config.Algorithm,
                   !.Burst = IF config.Burst <= 0 THEN config.Limit ELSE config.Burst]

Result(allowed, config, remaining, resetAt, retryAfter) ==
    [Allowed |-> allowed, Limit |-> config.Limit, Remaining |-> remaining,
     ResetAt |-> resetAt, RetryAfter |-> retryAfter]

\* a key that does not exist or has expired
NoEntry == [tokens |-> 0, last_refill |-> 0, members |-> {}, count |-> 0, expires |-> 0]

Lookup(store, key, now) ==
    IF key \in DOMAIN store /\ store[key].expires > now THEN store[key] ELSE NoEntry

Exists(entry) == entry # NoEntry

\* the store after the script has written the key
Stored(store, key, entry) ==
    [k \in DOMAIN store \cup {key} |-> IF k = key THEN entry ELSE store[k]]

\* the Lua script of tokenBucket
tokenBucket(entry, config, now, server) ==
    LET window == config.Window
        tokens0 == IF Exists(entry) THEN entry.tokens ELSE config.Burst * window
        lastRefill == IF Exists(entry) THEN entry.last_refill ELSE now
        elapsed == now - lastRefill
        refilled == Min(config.Burst * window, tokens0 + elapsed * config.Limit)
        allowed == refilled >= window
        tokens == IF allowed THEN refilled - window ELSE refilled
    IN [entry |-> [NoEntry EXCEPT !.tokens = tokens, !.last_refill = now,
                                  !.expires = server + window * 2],
        result |-> Result(allowed, config,
                          IF allowed THEN tokens \div window ELSE 0,
                          now + window,
                          IF allowed THEN 0 ELSE (window - refilled) \div config.Limit)]

\* the Lua script of slidingWindow; the member is now .. '-' .. math.random()
slidingWindow(entry, config, now, server, rnd) ==
    LET window == config.Window
        windowStart == now - window
        kept == {m \in entry.members : m[1] > windowStart}
        count == Cardinality(kept)
        allowed == count < config.Limit
        oldest == CHOOSE m \in kept : \A n \in kept : m[1] <= n[1]
        retryAfter == IF allowed \/ kept = {} THEN 0
                      ELSE IF oldest[1] + window - now < 0 THEN 0
                      ELSE oldest[1] + window - now
    IN [entry |-> [NoEntry EXCEPT !.members = IF allowed THEN kept \cup {<<now, rnd>>} ELSE kept,
                                  !.expires = server + window * 2],
        result |-> Result(allowed, config,
                          IF allowed THEN config.Limit - count - 1 ELSE 0,
                          now + window,
                          retryAfter)]

\* fixedWindow comparing the count before the increment with the limit
fixedWindow_CountBeforeIncrement(entry, config, now, server) ==
    LET current == entry.count + 1
        expires == IF current = 1 THEN server + config.Window ELSE entry.expires
        ttl == expires - server
        allowed == entry.count <= config.Limit
    IN [entry |-> [NoEntry EXCEPT !.count = current, !.expires = expires],
        result |-> Result(allowed, config,
                          IF allowed THEN config.Limit - current ELSE 0,
                          now + ttl,
                          IF allowed THEN 0 ELSE ttl)]

\* the Lua script of fixedWindow and the Go code after it
fixedWindow(entry, config, now, server) ==
    LET current == entry.count + 1
        expires == IF current = 1 THEN server + config.Window ELSE entry.expires
        ttl == expires - server
        allowed == current <= config.Limit
    IN [entry |-> [NoEntry EXCEPT !.count = current, !.expires = expires],
        result |-> Result(allowed, config,
                          IF allowed THEN config.Limit - current ELSE 0,
                          now + ttl,
                          IF allowed THEN 0 ELSE ttl)]

\* RedisStore.Allow: the algorithm is chosen by the configuration
Allow(entry, config, now, server, rnd) ==
    IF config.Algorithm = AlgorithmTokenBucket THEN tokenBucket(entry, config, now, server)
    ELSE IF config.Algorithm = AlgorithmSlidingWindow
    THEN slidingWindow(entry, config, now, server, rnd)
    ELSE IF config.Algorithm = AlgorithmFixedWindow
    THEN fixedWindow(entry, config, now, server)
    ELSE tokenBucket(entry, config, now, server)

\* ----------------------------------------------------------------- responses
NullResponse == [status |-> 0, body |-> <<>>, ctype |-> <<>>]

JSONResponse(status, body) == [status |-> status, body |-> body, ctype |-> MIMEApplicationJSON]

ErrorBody(msg) == <<"error", msg>>

WithdrawalBody(row, amountMinor) ==
    <<"withdrawal", row.user_id, amountMinor, row.balance_minor, row.updated_at>>

\* --------------------------------------------------- idempotency middleware
\* (mutant) the method is hashed as the client wrote it
withdrawRequestHash_MethodAsWritten(method, path, userID, body) ==
    TrimSpace(method) \o <<"\n">> \o TrimSpace(path) \o <<"\n">> \o TrimSpace(userID)
        \o <<"\n">> \o body

\* The bytes written to the hasher, in order.  SHA-256 and the hex encoding
\* give equal strings for equal bytes and different ones for different bytes.
withdrawRequestHash(method, path, userID, body) ==
    ToUpper(TrimSpace(method)) \o <<"\n">> \o TrimSpace(path) \o <<"\n">> \o TrimSpace(userID)
        \o <<"\n">> \o body

\* c.Body() of a withdrawal request with the given amount_minor
RequestBody(amount) == <<"{\"amount_minor\":">> \o Itoa(amount) \o <<"}">>

\* (mutant) the scope does not name the user
Scope_Shared(userID) == <<"withdraw:">>

\* fmt.Sprintf("withdraw:%s", userID)
Scope(userID) == <<"withdraw:">> \o userID

IdemRequest(r) ==
    [Scope |-> Scope(r.user),
     Key |-> TrimSpace(r.key),
     RequestHash |-> withdrawRequestHash(Method, Path, r.user, RequestBody(r.amount))]

\* the row of withdraw_idempotency a request addresses
RowKey(r) == <<TrimSpace(Scope(r.user)), TrimSpace(TrimSpace(r.key))>>

NullRow == [request_hash |-> <<>>, status |-> "", locked_until |-> 0, response |-> NullResponse]

NullDecision == [err |-> FALSE, Type |-> "", StatusCode |-> 0, Body |-> <<>>, ContentType |-> <<>>]

NullAcq == [now |-> 0, lockUntil |-> 0, existing |-> NullRow]

\* json tells whether the body binds to withdrawalRequest; amount is its amount_minor
NullReq == [user |-> <<>>, key |-> <<>>, amount |-> 0, json |-> TRUE, auth |-> <<>>]

NullTx == [user_id |-> <<>>, balance_minor |-> 0, updated_at |-> 0]

NullHist ==
    [invoked |-> FALSE, result |-> "", balSeen |-> -1, faulted |-> FALSE,
     prior |-> {}, rowAtArrival |-> FALSE, stored |-> FALSE, rate |-> "",
     completeErr |-> ""]

\* ---------------------------------------------------------------- row locks
\* SELECT .. FOR UPDATE of Acquire holds the row until the commit in AcquireDecide
IdemRowLocked(rk) == \E q \in Procs : pc[q] = "acq_decide" /\ RowKey(req[q]) = rk

\* an INSERT of Acquire that is not yet committed
IdemInsertPending(rk) == \E q \in Procs : pc[q] = "acq_commit" /\ RowKey(req[q]) = rk

\* (mutant) the UPDATE takes no row lock: concurrent debits start from the same balance
WalletRowLocked_Never(u) == FALSE

\* the UPDATE of the withdraw transaction holds the wallet row until it ends
WalletRowLocked(u) == \E q \in Procs : pc[q] \in {"wd_ledger", "wd_commit"} /\ req[q].user = u

\* rate_limit.withdraw.* of the deployment, as provideWithdrawRateLimiter reads it
WithdrawConfigs ==
    {[Algorithm |-> parseRateLimitAlgorithm(<<>>), Limit |-> limit, Window |-> 2, Burst |-> 0] : limit \in {1, 2}}

rlvars == <<rl, rlalg, rlcfg, calls, headers>>

Init ==
    /\ clock = 0
    /\ wallets = (WalletUser :> [balance_minor |-> InitBalance, version |-> 0, updated_at |-> 0])
    /\ ledger = <<>>
    /\ idem = <<>>
    /\ pc = [p \in Procs |-> "idle"]
    /\ req = [p \in Procs |-> NullReq]
    /\ acq = [p \in Procs |-> NullAcq]
    /\ decision = [p \in Procs |-> NullDecision]
    /\ wtx = [p \in Procs |-> NullTx]
    /\ hresp = [p \in Procs |-> NullResponse]
    /\ resp = [p \in Procs |-> NullResponse]
    /\ faults = 0
    /\ hist = [p \in Procs |-> NullHist]
    /\ rl = <<>>
    /\ rlalg = <<>>
    /\ rlcfg \in {New(c) : c \in WithdrawConfigs}
    /\ calls = <<>>
    /\ headers = [p \in Procs |-> <<>>]

Tick ==
    /\ clock < MaxTime
    /\ clock' = clock + 1
    /\ UNCHANGED <<wallets, ledger, idem, pc, req, acq, decision, wtx, hresp, resp, faults, hist>>
    /\ UNCHANGED rlvars

\* ------------------------------------------------------- SQLXStore.Acquire
Decision(type) == [err |-> FALSE, Type |-> type, StatusCode |-> 0, Body |-> <<>>, ContentType |-> <<>>]

ErrDecision == [err |-> TRUE, Type |-> "", StatusCode |-> 0, Body |-> <<>>, ContentType |-> <<>>]

\* the Replay decision carries the stored response triple
ReplayDecision(existing) ==
    [err |-> FALSE, Type |-> "replay",
     StatusCode |-> existing.response.status,
     Body |-> existing.response.body,
     ContentType |-> existing.response.ctype]

\* (mutant) the completed check is missing: a finished key is taken over again
AcquireBranch_NoReplay(existing, hash, now) ==
    IF existing.request_hash # hash THEN "conflict"
    ELSE IF existing.locked_until > now THEN "in_progress"
    ELSE "acquired"

\* (mutant) the lock expiry is not consulted: every retry of a running key is Acquired
AcquireBranch_IgnoreLock(existing, hash, now) ==
    IF existing.request_hash # hash THEN "conflict"
    ELSE IF existing.status = "completed" THEN "replay"
    ELSE "acquired"

\* (mutant) the status is tested before the request hash
AcquireBranch_StatusFirst(existing, hash, now) ==
    IF existing.status = "completed" THEN "replay"
    ELSE IF existing.request_hash # hash THEN "conflict"
    ELSE IF existing.status = "in_progress" /\ existing.locked_until > now THEN "in_progress"
    ELSE "acquired"

\* (mutant) a stored server error is not replayed: the key is taken over again
AcquireBranch_RetriesServerError(existing, hash, now) ==
    IF existing.request_hash # hash THEN "conflict"
    ELSE IF existing.status = "completed" /\ existing.response.status < StatusInternalServerError
    THEN "replay"
    ELSE IF existing.status = "in_progress" /\ existing.locked_until > now THEN "in_progress"
    ELSE "acquired"

\* (mutant) a stale lock is taken over before the request hash is compared
AcquireBranch_StaleLockFirst(existing, hash, now) ==
    IF existing.status = "in_progress" /\ existing.locked_until <= now THEN "acquired"
    ELSE IF existing.request_hash # hash THEN "conflict"
    ELSE IF existing.status = "completed" THEN "replay"
    ELSE "in_progress"

\* (mutant) a lock never counts as expired
AcquireBranch_LockNeverExpires(existing, hash, now) ==
    IF existing.request_hash # hash THEN "conflict"
    ELSE IF existing.status = "completed" THEN "replay"
    ELSE "in_progress"

\* the branch Acquire takes on a row it found and locked
AcquireBranch(existing, hash, now) ==
    IF existing.request_hash # hash THEN "conflict"
    ELSE IF existing.status = "completed" THEN "replay"
    ELSE IF existing.status = "in_progress" /\ existing.locked_until > now THEN "in_progress"
    ELSE "acquired"

\* row written by the INSERT of Acquire
InsertedRow(hash, lockUntil) ==
    [request_hash |-> hash, status |-> "in_progress", locked_until |-> lockUntil,
     response |-> NullResponse]

\* row written by the reacquire UPDATE of Acquire
ReacquiredRow(existing, lockUntil) ==
    [existing EXCEPT !.status = "in_progress", !.locked_until = lockUntil]

\* (mutant) an in-progress answer extends the lock of the record
RowAfterAcquire_ExtendsLock(existing, branch, lockUntil) ==
    IF branch \in {"acquired", "in_progress"} THEN ReacquiredRow(existing, lockUntil)
    ELSE existing

\* the row when Acquire commits: written by the reacquire UPDATE only
RowAfterAcquire(existing, branch, lockUntil) ==
    IF branch = "acquired" THEN ReacquiredRow(existing, lockUntil) ELSE existing

\* (mutant) Complete stores the status code only
CompletedRow_StatusOnly(existing, response, now) ==
    [existing EXCEPT !.status = "completed",
                     !.response = [status |-> response.status, body |-> <<>>, ctype |-> <<>>],
                     !.locked_until = now]

\* row written by the UPDATE of Complete
CompletedRow(existing, response, now) ==
    [existing EXCEPT !.status = "completed",
                     !.response = [status |-> response.status, body |-> response.body,
                                   ctype |-> TrimSpace(response.ctype)],
                     !.locked_until = now]

\* WHERE clause of the UPDATE of Complete
CompleteMatches(rk, hash) == rk \in DOMAIN idem /\ idem[rk].request_hash = hash

\* (mutant) zero affected rows are not reported
CompleteError_Silent(execFailed, matches) ==
    IF execFailed THEN "idempotency: failed to persist response" ELSE ""

\* the error Complete returns, "" for nil
CompleteError(execFailed, matches) ==
    IF execFailed THEN "idempotency: failed to persist response"
    ELSE IF ~matches THEN "idempotency: key not found for completion"
    ELSE ""

\* ------------------------------------------- NewHTTPWithdrawIdempotencyMiddleware
DecisionTypes == {"acquired", "replay", "in_progress", "conflict"}

DefaultContentType == <<"text/plain; charset=utf-8">>

\* (mutant) the switch falls through to the handler on an in-progress key
IdempotencyDispatch_FallThrough(d) ==
    IF d.err THEN "acquire_failed"
    ELSE IF d.Type = "replay" THEN "replay"
    ELSE IF d.Type = "conflict" THEN "conflict"
    ELSE IF d.Type \in {"acquired", "in_progress"} THEN "next"
    ELSE "invalid"

\* what the middleware does with the outcome of Acquire: "next" runs the handler
IdempotencyDispatch(d) ==
    IF d.err THEN "acquire_failed"
    ELSE IF d.Type = "replay" THEN "replay"
    ELSE IF d.Type = "in_progress" THEN "in_progress"
    ELSE IF d.Type = "conflict" THEN "conflict"
    ELSE IF d.Type = "acquired" THEN "next"
    ELSE "invalid"

\* the response of every branch of the middleware that does not run the handler
IdempotencyResponse(d) ==
    LET branch == IdempotencyDispatch(d) IN
    IF branch = "acquire_failed"
    THEN JSONResponse(StatusInternalServerError, ErrorBody("failed to acquire idempotency key"))
    ELSE IF branch = "replay"
    THEN [status |-> IF d.StatusCode <= 0 THEN StatusOK ELSE d.StatusCode,
          body |-> d.Body,
          ctype |-> IF d.ContentType # <<>> THEN d.ContentType ELSE DefaultContentType]
    ELSE IF branch = "in_progress"
    THEN JSONResponse(StatusConflict, ErrorBody("request is already in progress"))
    ELSE IF branch = "conflict"
    THEN JSONResponse(StatusConflict, ErrorBody("idempotency key reused with different payload"))
    ELSE JSONResponse(StatusInternalServerError, ErrorBody("invalid idempotency state"))

\* the middleware returns d to the pipeline: either the handler runs or the client is answered
Dispatched(p, d) ==
    /\ decision' = [decision EXCEPT ![p] = d]
    /\ IF IdempotencyDispatch(d) = "next"
       THEN /\ pc' = [pc EXCEPT ![p] = "handler"]
            /\ resp' = resp
       ELSE /\ pc' = [pc EXCEPT ![p] = "done"]
            /\ resp' = [resp EXCEPT ![p] = IdempotencyResponse(d)]

\* the checks of the middleware before Acquire; the application is wired with
\* NewSQLXStore, so the store is never nil at run time
StoreIsNil == FALSE

\* (mutant) the key is tested without strings.TrimSpace
IdempotencyGate_KeyNotTrimmed(storeNil, userID, key) ==
    IF storeNil THEN "store_unavailable"
    ELSE IF TrimSpace(userID) = <<>> THEN "unauthenticated"
    ELSE IF key = <<>> THEN "missing_key"
    ELSE "acquire"

\* the checks of the middleware before Acquire
IdempotencyGate(storeNil, userID, key) ==
    IF storeNil THEN "store_unavailable"
    ELSE IF TrimSpace(userID) = <<>> THEN "unauthenticated"
    ELSE IF TrimSpace(key) = <<>> THEN "missing_key"
    ELSE "acquire"

GateResponse(gate) ==
    IF gate = "store_unavailable"
    THEN JSONResponse(StatusInternalServerError, ErrorBody("idempotency store is not available"))
    ELSE IF gate = "unauthenticated"
    THEN JSONResponse(StatusUnauthorized, ErrorBody("missing authenticated user"))
    ELSE JSONResponse(StatusBadRequest, ErrorBody("missing idempotency key"))

\* ------------------------------------------------------- NewHTTPJWTMiddleware
\* strings.SplitN(s, " ", 2)
RECURSIVE IndexOfSpace(_, _)
IndexOfSpace(s, i) ==
    IF i > Len(s) THEN 0 ELSE IF s[i] = " " THEN i ELSE IndexOfSpace(s, i + 1)

SplitN2(s) ==
    LET i == IndexOfSpace(s, 1) IN
    IF i = 0 THEN <<s>> ELSE <<SubSeq(s, 1, i - 1), SubSeq(s, i + 1, Len(s))>>

\* strings.EqualFold(scheme, "Bearer")
IsBearer(scheme) == scheme \in {<<"Bearer">>, <<"bearer">>, <<"BEARER">>}

\* the tokens AuthLoginService.Login signs carry the id of a user as Subject
SignedToken(userID) == <<"jwt:">> \o userID

\* hmacManager.Verify: the Subject of a token signed with the secret, or an error
Verify(tokenString) ==
    IF \E u \in UserIDs : tokenString = SignedToken(u)
    THEN [err |-> FALSE, Subject |-> CHOOSE u \in UserIDs : tokenString = SignedToken(u)]
    ELSE [err |-> TRUE, Subject |-> <<>>]

BearerHeader(tokenString) == <<"Bearer", " ">> \o tokenString

\* Authorization headers of the requests: none, a token that does not verify,
\* and the tokens of the two users
Authorizations ==
    {<<>>, BearerHeader(<<"jwt:", "forged">>)} \cup {BearerHeader(SignedToken(u)) : u \in UserIDs}

\* (mutant) a request without a valid token is let through without a user_id
JWTGate_LetsThrough(authorization) == "next"

\* the branch the JWT middleware takes
JWTGate(authorization) ==
    LET parts == SplitN2(TrimSpace(authorization)) IN
    IF Len(parts) # 2 \/ ~IsBearer(parts[1]) THEN "bad_header"
    ELSE IF TrimSpace(parts[2]) = <<>> THEN "missing_token"
    ELSE IF Verify(TrimSpace(parts[2])).err THEN "invalid_token"
    ELSE "next"

\* c.Locals("user_id") after the JWT middleware; <<>> when it was never set
JWTSubject(authorization) ==
    LET parts == SplitN2(TrimSpace(authorization)) IN
    IF Len(parts) = 2 THEN Verify(TrimSpace(parts[2])).Subject ELSE <<>>

JWTResponse(gate) ==
    IF gate = "bad_header"
    THEN JSONResponse(StatusUnauthorized, ErrorBody("missing or invalid authorization header"))
    ELSE IF gate = "missing_token"
    THEN JSONResponse(StatusUnauthorized, ErrorBody("missing bearer token"))
    ELSE JSONResponse(StatusUnauthorized, ErrorBody("invalid token"))

\* headers X-Idempotency-Key of the requests: two keys, none and a blank one
IdempotencyKeys == Keys \cup {<<>>, <<" ">>}

\* A request arrives at the protected group: the JWT middleware answers 401
\* or sets user_id and passes it on.  The idempotency key and the body are not
\* read before the idempotency middleware, where the model draws them.
JWTEnter(p) ==
    /\ pc[p] = "idle"
    /\ \A q \in Procs : q < p => pc[q] # "idle"
    /\ \E authorization \in Authorizations :
        /\ req' = [req EXCEPT ![p] = [NullReq EXCEPT !.user = JWTSubject(authorization),
                                                     !.auth = authorization]]
        /\ IF JWTGate(authorization) = "next"
           THEN /\ pc' = [pc EXCEPT ![p] = "rate"]
                /\ resp' = resp
           ELSE /\ pc' = [pc EXCEPT ![p] = "done"]
                /\ resp' = [resp EXCEPT ![p] = JWTResponse(JWTGate(authorization))]
    /\ UNCHANGED <<clock, wallets, ledger, idem, acq, decision, wtx, hresp, faults, hist>>
    /\ UNCHANGED rlvars

\* ------------------------------------------------- NewHTTPRateLimitMiddleware
ClientIP == <<"10.0.0.1">>

\* PerIPKeyExtractor in the place of PerUserKeyExtractor: one key per client address
PerUserKeyExtractor_PerIP(prefix, userID) == prefix \o <<":ip:">> \o ClientIP

\* PerUserKeyExtractor("withdraw")
PerUserKeyExtractor(prefix, userID) ==
    IF userID # <<>> THEN prefix \o <<":user:">> \o userID ELSE prefix \o <<":ip:">> \o ClientIP

\* the key of RedisStore.Allow: prefix of the store, ":", key of the middleware
FullKey(key) == <<"withdraw-api:withdraw", ":">> \o key

\* int(result.RetryAfter.Seconds()): one tick of the clock is defaultLockTTL
Seconds(d) == d * SecondsPerTick

\* (mutant) retryAfter without the floor of one second
RetryAfterHeader_NoFloor(result) == Seconds(result.RetryAfter)

\* retryAfter of the middleware: whole seconds, at least 1
RetryAfterHeader(result) == IF Seconds(result.RetryAfter) < 1 THEN 1 ELSE Seconds(result.RetryAfter)

\* the X-RateLimit-* headers set for every result of the limiter
RateLimitHeaders(result) ==
    [h \in {"X-RateLimit-Limit", "X-RateLimit-Remaining", "X-RateLimit-Reset"} |->
        IF h = "X-RateLimit-Limit" THEN Itoa(result.Limit)
        ELSE IF h = "X-RateLimit-Remaining" THEN Itoa(result.Remaining)
        ELSE Itoa(Seconds(result.ResetAt))]

\* the headers of the response after the middleware has seen the result
HeadersAfterAllowKey(err, result) ==
    IF err THEN <<>>
    ELSE IF ~result.Allowed
    THEN RateLimitHeaders(result) @@ ("Retry-After" :> Itoa(RetryAfterHeader(result)))
    ELSE RateLimitHeaders(result)

RateLimitedResponse(result) ==
    JSONResponse(StatusTooManyRequests,
                 <<"error", "rate limit exceeded", "retry_after", RetryAfterHeader(result)>>)

\* (mutant) a denied request is passed on like an allowed one
RateLimitDispatch_IgnoresDenial(err, result) ==
    IF err THEN "limiter_failed" ELSE "next"

\* (mutant) an error of the limiter is answered like a denial
RateLimitDispatch_ErrorAsDenial(err, result) ==
    IF err THEN "limited" ELSE IF ~result.Allowed THEN "limited" ELSE "next"

\* what the middleware does with the outcome of Limiter.AllowKey
RateLimitDispatch(err, result) ==
    IF err THEN "limiter_failed" ELSE IF ~result.Allowed THEN "limited" ELSE "next"

NullResult == [Allowed |-> FALSE, Limit |-> 0, Remaining |-> 0, ResetAt |-> 0, RetryAfter |-> 0]

\* limiter.AllowKey: an error of the store is returned as an error, with no Result
AllowKey(storeErr, result) ==
    IF storeErr THEN [err |-> TRUE, result |-> NullResult] ELSE [err |-> FALSE, result |-> result]

\* the rate-limit middleware answers for itself or calls the next handler
RateLimited(p, storeErr, storeResult) ==
    LET got == AllowKey(storeErr, storeResult)
        branch == RateLimitDispatch(got.err, got.result)
    IN
    /\ headers' = [headers EXCEPT ![p] = HeadersAfterAllowKey(got.err, got.result)]
    /\ hist' = [hist EXCEPT ![p].rate = IF storeErr THEN "error"
                                        ELSE IF storeResult.Allowed THEN "allowed"
                                        ELSE "denied"]
    /\ IF branch = "next"
       THEN /\ pc' = [pc EXCEPT ![p] = "idem"]
            /\ resp' = resp
       ELSE /\ pc' = [pc EXCEPT ![p] = "done"]
            /\ resp' = [resp EXCEPT ![p] =
                   IF branch = "limiter_failed"
                   THEN JSONResponse(StatusInternalServerError, ErrorBody("internal server error"))
                   ELSE RateLimitedResponse(got.result)]

\* The rate-limit middleware calls Limiter.AllowKey: the store runs its
\* script, or cannot be reached.
RateLimit(p) ==
    /\ pc[p] = "rate"
    /\ LET key == FullKey(PerUserKeyExtractor(<<"withdraw">>, req[p].user)) IN
       \/ \E rnd \in Rand :
            LET out == Allow(Lookup(rl, key, clock), rlcfg, clock, clock, rnd) IN
            /\ rl' = Stored(rl, key, out.entry)
            /\ RateLimited(p, FALSE, out.result)
            /\ faults' = faults
       \/ /\ faults < MaxFaults
          /\ faults' = faults + 1
          /\ rl' = rl
          /\ RateLimited(p, TRUE, NullResult)
    /\ UNCHANGED <<clock, wallets, ledger, idem, req, acq, decision, wtx, hresp, rlalg, rlcfg, calls>>

\* The request reaches the idempotency middleware; Acquire validates its
\* arguments, reads the clock and begins its transaction.
IdempotencyEnter(p) ==
    /\ pc[p] = "idem"
    /\ \E key \in IdempotencyKeys, amount \in Amounts :
        LET r == [req[p] EXCEPT !.key = key, !.amount = amount]
            gate == IdempotencyGate(StoreIsNil, r.user, r.key)
        IN
        /\ req' = [req EXCEPT ![p] = r]
        /\ hist' = [hist EXCEPT ![p].prior = {q \in Procs : pc[q] = "done"},
                                ![p].rowAtArrival = RowKey(r) \in DOMAIN idem]
        /\ IF gate # "acquire"
           THEN /\ pc' = [pc EXCEPT ![p] = "done"]
                /\ resp' = [resp EXCEPT ![p] = GateResponse(gate)]
                /\ acq' = acq
           ELSE /\ pc' = [pc EXCEPT ![p] = "acq_select"]
                /\ resp' = resp
                /\ acq' = [acq EXCEPT ![p] = [now |-> clock,
                                              lockUntil |-> clock + defaultLockTTL,
                                              existing |-> NullRow]]
    /\ UNCHANGED <<clock, wallets, ledger, idem, decision, wtx, hresp, faults>>
    /\ UNCHANGED rlvars

\* SELECT .. FOR UPDATE: locks and reads the committed row, or finds none
AcquireSelect(p) ==
    /\ pc[p] = "acq_select"
    /\ LET rk == RowKey(req[p]) IN
       IF rk \in DOMAIN idem
       THEN /\ ~IdemRowLocked(rk)
            /\ acq' = [acq EXCEPT ![p].existing = idem[rk]]
            /\ pc' = [pc EXCEPT ![p] = "acq_decide"]
       ELSE /\ acq' = acq
            /\ pc' = [pc EXCEPT ![p] = "acq_insert"]
    /\ UNCHANGED <<clock, wallets, ledger, idem, req, decision, wtx, hresp, resp, faults, hist>>
    /\ UNCHANGED rlvars

\* INSERT after sql.ErrNoRows: waits for a pending insert of the same key,
\* fails on the unique index uq_withdraw_idempotency_scope_key
AcquireInsert(p) ==
    /\ pc[p] = "acq_insert"
    /\ LET rk == RowKey(req[p]) IN
       IF rk \in DOMAIN idem
       THEN /\ Dispatched(p, ErrDecision)
       ELSE /\ ~IdemInsertPending(rk)
            /\ pc' = [pc EXCEPT ![p] = "acq_commit"]
            /\ UNCHANGED <<decision, resp>>
    /\ UNCHANGED <<clock, wallets, ledger, idem, req, acq, wtx, hresp, faults, hist>>
    /\ UNCHANGED rlvars

\* commit of the insert: the row becomes visible, Acquire returns Acquired
AcquireCommitInsert(p) ==
    /\ pc[p] = "acq_commit"
    /\ idem' = idem @@ (RowKey(req[p]) :> InsertedRow(IdemRequest(req[p]).RequestHash, acq[p].lockUntil))
    /\ Dispatched(p, Decision("acquired"))
    /\ UNCHANGED <<clock, wallets, ledger, req, acq, wtx, hresp, faults, hist>>
    /\ UNCHANGED rlvars

\* the row was found: conflict, replay, in-progress or stale-lock reacquire, then commit
AcquireDecide(p) ==
    /\ pc[p] = "acq_decide"
    /\ LET rk == RowKey(req[p])
           existing == acq[p].existing
           branch == AcquireBranch(existing, IdemRequest(req[p]).RequestHash, acq[p].now)
       IN
       /\ idem' = [idem EXCEPT ![rk] = RowAfterAcquire(existing, branch, acq[p].lockUntil)]
       /\ Dispatched(p, IF branch = "replay" THEN ReplayDecision(existing) ELSE Decision(branch))
    /\ UNCHANGED <<clock, wallets, ledger, req, acq, wtx, hresp, faults, hist>>
    /\ UNCHANGED rlvars

\* ------------------------------------------------ InquiryWithdrawBalanceHandler
\* err.Error() of the errors that are none of the three typed ones
ErrorText(result) ==
    IF result = "invalid_user_id" THEN "repository: invalid user_id"
    ELSE IF result = "tx_failure" THEN "repository: failed to withdraw wallet balance"
    ELSE ""

\* (mutant) the default case answers with the text of the error
HandlerResponse_LeaksError(result, row, amountMinor) ==
    IF result = "ok" THEN JSONResponse(StatusOK, WithdrawalBody(row, amountMinor))
    ELSE IF result = "unauthenticated"
    THEN JSONResponse(StatusUnauthorized, ErrorBody("missing authenticated user"))
    ELSE IF result = "invalid_body"
    THEN JSONResponse(StatusBadRequest, ErrorBody("invalid request body"))
    ELSE IF result = "invalid_amount"
    THEN JSONResponse(StatusBadRequest, ErrorBody("amount_minor must be greater than 0"))
    ELSE IF result = "wallet_not_found"
    THEN JSONResponse(StatusNotFound, ErrorBody("wallet not found"))
    ELSE IF result = "insufficient_balance"
    THEN JSONResponse(StatusConflict, ErrorBody("insufficient balance"))
    ELSE JSONResponse(StatusInternalServerError, ErrorBody(ErrorText(result)))

\* the fixed status and message of every outcome of Handle
HandlerResponse(result, row, amountMinor) ==
    IF result = "ok" THEN JSONResponse(StatusOK, WithdrawalBody(row, amountMinor))
    ELSE IF result = "unauthenticated"
    THEN JSONResponse(StatusUnauthorized, ErrorBody("missing authenticated user"))
    ELSE IF result = "invalid_body"
    THEN JSONResponse(StatusBadRequest, ErrorBody("invalid request body"))
    ELSE IF result = "invalid_amount"
    THEN JSONResponse(StatusBadRequest, ErrorBody("amount_minor must be greater than 0"))
    ELSE IF result = "wallet_not_found"
    THEN JSONResponse(StatusNotFound, ErrorBody("wallet not found"))
    ELSE IF result = "insufficient_balance"
    THEN JSONResponse(StatusConflict, ErrorBody("insufficient balance"))
    ELSE JSONResponse(StatusInternalServerError, ErrorBody("internal server error"))

\* uuid.Parse accepts the user ids the token issuer hands out
IsUUID(userID) == userID \in UserIDs

\* ---------------------------------- WithdrawBalanceRepository (transaction)
\* (mutant) the balance condition is missing from the WHERE clause
WithdrawUpdateMatches_NoGuard(userID, amountMinor) == userID \in DOMAIN wallets

\* (mutant) the balance condition is off by one
WithdrawUpdateMatches_OffByOne(userID, amountMinor) ==
    userID \in DOMAIN wallets /\ wallets[userID].balance_minor + 1 >= amountMinor

\* WHERE clause of the conditional UPDATE, on the committed row of the user
WithdrawUpdateMatches(userID, amountMinor) ==
    userID \in DOMAIN wallets /\ wallets[userID].balance_minor >= amountMinor

\* (mutant) the UPDATE leaves balance_minor as it was
WithdrawnWallet_NoDebit(userID, amountMinor) ==
    [user_id |-> userID,
     balance_minor |-> wallets[userID].balance_minor,
     updated_at |-> clock]

\* RETURNING row of the conditional UPDATE
WithdrawnWallet(userID, amountMinor) ==
    [user_id |-> userID,
     balance_minor |-> wallets[userID].balance_minor - amountMinor,
     updated_at |-> clock]

\* (mutant) the existence check always finds a wallet
HasWalletByUserID_Always(userID) == TRUE

\* HasWalletByUserID
HasWalletByUserID(userID) == userID \in DOMAIN wallets

\* (mutant) the ledger records the balance before the debit
LedgerParams_BalanceBefore(row, amountMinor) ==
    [wallet_id |-> row.user_id, entry_type |-> "withdrawal",
     amount_minor |-> 0 - amountMinor, balance_after_minor |-> row.balance_minor + amountMinor]

\* parameters of InsertWalletLedger
LedgerParams(row, amountMinor) ==
    [wallet_id |-> row.user_id, entry_type |-> "withdrawal",
     amount_minor |-> 0 - amountMinor, balance_after_minor |-> row.balance_minor]

\* (mutant) the UPDATE without version = version + 1
CommitWallets_VersionKept(p) ==
    [wallets EXCEPT ![req[p].user] =
        [balance_minor |-> wtx[p].balance_minor,
         version |-> wallets[req[p].user].version,
         updated_at |-> wtx[p].updated_at]]

\* table wallets after tx.Commit(): the updated row replaces the locked one
CommitWallets(p) ==
    [wallets EXCEPT ![req[p].user] =
        [balance_minor |-> wtx[p].balance_minor,
         version |-> wallets[req[p].user].version + 1,
         updated_at |-> wtx[p].updated_at]]

\* (mutant) one ledger row per wallet: a second withdrawal rewrites the row
CommitLedger_RewritesEntry(p) ==
    LET entry == LedgerParams(wtx[p], req[p].amount)
        rows == {i \in 1..Len(ledger) : ledger[i].wallet_id = entry.wallet_id}
    IN IF rows = {} THEN Append(ledger, entry)
       ELSE [ledger EXCEPT ![CHOOSE i \in rows : TRUE] = entry]

\* table wallet_ledger after tx.Commit()
CommitLedger(p) == Append(ledger, LedgerParams(wtx[p], req[p].amount))

\* (mutant) the statements run outside the transaction: a debit already made stays
RollbackWallets_KeepsDebit(p) == IF pc[p] \in {"wd_ledger", "wd_commit"} THEN CommitWallets(p) ELSE wallets

\* tables after the deferred tx.Rollback()
RollbackWallets(p) == wallets

RollbackLedger(p) == ledger

\* the service returns to the handler, which writes its response
HandlerReturns(p, result, faulted) ==
    /\ hresp' = [hresp EXCEPT ![p] = HandlerResponse(result, wtx[p], req[p].amount)]
    /\ pc' = [pc EXCEPT ![p] = "complete"]
    /\ hist' = [hist EXCEPT ![p].result = result, ![p].faulted = faulted, ![p].invoked = TRUE]
    /\ faults' = IF faulted THEN faults + 1 ELSE faults

\* the withdraw transaction fails at its current statement and is rolled back
WithdrawFails(p) ==
    /\ faults < MaxFaults
    /\ wallets' = RollbackWallets(p)
    /\ ledger' = RollbackLedger(p)
    /\ HandlerReturns(p, "tx_failure", TRUE)
    /\ UNCHANGED wtx

\* Handle, WithdrawBalance and the repository up to BeginTxx
HandlerEnter(p) ==
    /\ pc[p] = "handler"
    /\ LET userID == req[p].user
           amountMinor == req[p].amount
       IN
       IF userID = <<>>
       THEN HandlerReturns(p, "unauthenticated", FALSE)
       ELSE IF ~req[p].json
       THEN HandlerReturns(p, "invalid_body", FALSE)
       ELSE IF TrimSpace(userID) = <<>>
       THEN HandlerReturns(p, "wallet_not_found", FALSE)
       ELSE IF amountMinor <= 0
       THEN HandlerReturns(p, "invalid_amount", FALSE)
       ELSE IF ~IsUUID(userID)
       THEN HandlerReturns(p, "invalid_user_id", FALSE)
       ELSE \/ /\ pc' = [pc EXCEPT ![p] = "wd_update"]
               /\ hist' = [hist EXCEPT ![p].invoked = TRUE]
               /\ UNCHANGED <<hresp, faults>>
            \/ /\ faults < MaxFaults
               /\ HandlerReturns(p, "tx_failure", TRUE)
    /\ UNCHANGED <<clock, wallets, ledger, idem, req, acq, decision, wtx, resp>>
    /\ UNCHANGED rlvars

\* the conditional UPDATE: waits for the row lock when the committed row matches
WithdrawUpdate(p) ==
    /\ pc[p] = "wd_update"
    /\ LET userID == req[p].user
           amountMinor == req[p].amount
           seen == IF userID \in DOMAIN wallets THEN wallets[userID].balance_minor ELSE -1
       IN
       \/ /\ WithdrawUpdateMatches(userID, amountMinor)
          /\ ~WalletRowLocked(userID)
          /\ wtx' = [wtx EXCEPT ![p] = WithdrawnWallet(userID, amountMinor)]
          /\ pc' = [pc EXCEPT ![p] = "wd_ledger"]
          /\ hist' = [hist EXCEPT ![p].balSeen = seen]
          /\ UNCHANGED <<wallets, ledger, hresp, faults>>
       \/ /\ ~WithdrawUpdateMatches(userID, amountMinor)
          /\ pc' = [pc EXCEPT ![p] = "wd_exists"]
          /\ hist' = [hist EXCEPT ![p].balSeen = seen]
          /\ UNCHANGED <<wallets, ledger, wtx, hresp, faults>>
       \/ WithdrawFails(p)
    /\ UNCHANGED <<clock, idem, req, acq, decision, resp>>
    /\ UNCHANGED rlvars

\* sql.ErrNoRows: wallet absent or balance insufficient
WithdrawHasWallet(p) ==
    /\ pc[p] = "wd_exists"
    /\ \/ /\ HandlerReturns(p, IF HasWalletByUserID(req[p].user)
                               THEN "insufficient_balance" ELSE "wallet_not_found", FALSE)
          /\ wallets' = RollbackWallets(p)
          /\ ledger' = RollbackLedger(p)
          /\ UNCHANGED wtx
       \/ WithdrawFails(p)
    /\ UNCHANGED <<clock, idem, req, acq, decision, resp>>
    /\ UNCHANGED rlvars

\* InsertWalletLedger inside the transaction
WithdrawInsertLedger(p) ==
    /\ pc[p] = "wd_ledger"
    /\ \/ /\ pc' = [pc EXCEPT ![p] = "wd_commit"]
          /\ UNCHANGED <<wallets, ledger, wtx, hresp, faults, hist>>
       \/ WithdrawFails(p)
    /\ UNCHANGED <<clock, idem, req, acq, decision, resp>>
    /\ UNCHANGED rlvars

\* tx.Commit(): the debit and its ledger entry become visible together
WithdrawCommit(p) ==
    /\ pc[p] = "wd_commit"
    /\ \/ /\ wallets' = CommitWallets(p)
          /\ ledger' = CommitLedger(p)
          /\ HandlerReturns(p, "ok", FALSE)
          /\ UNCHANGED wtx
       \/ WithdrawFails(p)
    /\ UNCHANGED <<clock, idem, req, acq, decision, resp>>
    /\ UNCHANGED rlvars

\* --------------------------------------------- SQLXStore.Complete and reply
PersistFailedResponse ==
    JSONResponse(StatusInternalServerError, ErrorBody("failed to persist idempotency response"))

\* Handle returns what c.Status(..).JSON(..) returns, which is nil
HandlerErr == FALSE

\* (mutant) a failed Complete leaves the response of the handler in place
CompleteResponse_KeepsHandlerResponse(completeErr, handlerErr, response) == response

\* the response after Complete: the captured one, or the substitute when
\* Complete failed and the handler returned no error of its own
CompleteResponse(completeErr, handlerErr, response) ==
    IF completeErr /\ ~handlerErr THEN PersistFailedResponse ELSE response

\* after c.Next(): Complete stores the captured response; the handler response
\* is replaced when Complete fails (the handler itself returned no error)
MiddlewareComplete(p) ==
    /\ pc[p] = "complete"
    /\ LET rk == RowKey(req[p])
           hash == IdemRequest(req[p]).RequestHash
       IN
       \/ /\ ~IdemRowLocked(rk)
          /\ LET err == CompleteError(FALSE, CompleteMatches(rk, hash)) IN
             /\ idem' = IF CompleteMatches(rk, hash)
                        THEN [idem EXCEPT ![rk] = CompletedRow(idem[rk], hresp[p], clock)]
                        ELSE idem
             /\ resp' = [resp EXCEPT ![p] = CompleteResponse(err # "", HandlerErr, hresp[p])]
             /\ hist' = [hist EXCEPT ![p].stored = CompleteMatches(rk, hash),
                                     ![p].completeErr = err]
          /\ faults' = faults
       \/ /\ faults < MaxFaults
          /\ faults' = faults + 1
          /\ idem' = idem
          /\ LET err == CompleteError(TRUE, CompleteMatches(rk, hash)) IN
             /\ resp' = [resp EXCEPT ![p] = CompleteResponse(err # "", HandlerErr, hresp[p])]
             /\ hist' = [hist EXCEPT ![p].completeErr = err]
    /\ pc' = [pc EXCEPT ![p] = "done"]
    /\ UNCHANGED <<clock, wallets, ledger, req, acq, decision, wtx, hresp>>
    /\ UNCHANGED rlvars

Next ==
    \/ Tick
    \/ \E p \in Procs : JWTEnter(p)
    \/ \E p \in Procs : RateLimit(p)
    \/ \E p \in Procs : IdempotencyEnter(p)
    \/ \E p \in Procs : AcquireSelect(p)
    \/ \E p \in Procs : AcquireInsert(p)
    \/ \E p \in Procs : AcquireCommitInsert(p)
    \/ \E p \in Procs : AcquireDecide(p)
    \/ \E p \in Procs : HandlerEnter(p)
    \/ \E p \in Procs : WithdrawUpdate(p)
    \/ \E p \in Procs : WithdrawHasWallet(p)
    \/ \E p \in Procs : WithdrawInsertLedger(p)
    \/ \E p \in Procs : WithdrawCommit(p)
    \/ \E p \in Procs : MiddlewareComplete(p)

Spec == Init /\ [][Next]_vars

\* An Acquire call that has begun its transaction runs its statements to the
\* end: a statement that waits for a row lock goes on once the lock is released.
LiveInit == Init /\ rlcfg.Limit = 2

LiveSpec ==
    /\ LiveInit
    /\ [][Next]_vars
    /\ \A p \in Procs : WF_vars(AcquireSelect(p)) /\ WF_vars(AcquireDecide(p))

\* ------------------------------------------------ the store called directly
\* responses handed to Complete
StoredResponses ==
    {JSONResponse(StatusOK, <<"withdrawal">>),
     JSONResponse(StatusInternalServerError, ErrorBody("internal server error"))}

StoreInit == Init /\ rlcfg.Limit = 1

\* Acquire is called with the Request of a user, key and body
StoreAcquire(p) ==
    /\ pc[p] = "idle"
    /\ \E userID \in UserIDs, key \in Keys, amount \in Amounts :
        req' = [req EXCEPT ![p] = [NullReq EXCEPT !.user = userID, !.key = key,
                                                 !.amount = amount]]
    /\ acq' = [acq EXCEPT ![p] = [now |-> clock, lockUntil |-> clock + defaultLockTTL,
                                  existing |-> NullRow]]
    /\ pc' = [pc EXCEPT ![p] = "acq_select"]
    /\ UNCHANGED <<clock, wallets, ledger, idem, decision, wtx, hresp, resp, faults, hist>>
    /\ UNCHANGED rlvars

\* Complete is called with a Request and a StoredResponse: by a caller whose
\* Acquire returned Acquired, or by one that never called Acquire
StoreComplete(p) ==
    /\ pc[p] \in {"idle", "handler"}
    /\ IF pc[p] = "idle"
       THEN \E userID \in UserIDs, key \in Keys, amount \in Amounts :
               req' = [req EXCEPT ![p] = [NullReq EXCEPT !.user = userID, !.key = key,
                                                        !.amount = amount]]
       ELSE req' = req
    /\ \E response \in StoredResponses : hresp' = [hresp EXCEPT ![p] = response]
    /\ pc' = [pc EXCEPT ![p] = "complete"]
    /\ UNCHANGED <<clock, wallets, ledger, idem, acq, decision, wtx, resp, faults, hist>>
    /\ UNCHANGED rlvars

StoreNext ==
    \/ Tick
    \/ \E p \in Procs : StoreAcquire(p)
    \/ \E p \in Procs : AcquireSelect(p)
    \/ \E p \in Procs : AcquireInsert(p)
    \/ \E p \in Procs : AcquireCommitInsert(p)
    \/ \E p \in Procs : AcquireDecide(p)
    \/ \E p \in Procs : StoreComplete(p)
    \/ \E p \in Procs : MiddlewareComplete(p)

StoreSpec == StoreInit /\ [][StoreNext]_vars

\* --------------------------------------------- the handler called directly
\* values of c.Locals("user_id"): none, blank, not a uuid, and the two users
HandlerUsers == {<<>>, <<" ">>, <<"not-a-uuid">>} \cup UserIDs

\* amount_minor of the bodies that bind
HandlerAmounts == {-1, 0} \cup Amounts

HandleInit == Init /\ rlcfg.Limit = 1

\* Handle is called with a user_id local and a body, behind no middleware
HandleCall(p) ==
    /\ pc[p] = "idle"
    /\ \A q \in Procs : q < p => pc[q] # "idle"
    /\ \E userID \in HandlerUsers, amount \in HandlerAmounts, json \in BOOLEAN :
        /\ json \/ amount = 0
        /\ req' = [req EXCEPT ![p] = [NullReq EXCEPT !.user = userID, !.amount = amount,
                                                     !.json = json]]
    /\ pc' = [pc EXCEPT ![p] = "handler"]
    /\ UNCHANGED <<clock, wallets, ledger, idem, acq, decision, wtx, hresp, resp, faults, hist>>
    /\ UNCHANGED rlvars

\* the response Handle wrote is sent
HandleReturn(p) ==
    /\ pc[p] = "complete"
    /\ pc' = [pc EXCEPT ![p] = "done"]
    /\ resp' = [resp EXCEPT ![p] = hresp[p]]
    /\ UNCHANGED <<clock, wallets, ledger, idem, req, acq, decision, wtx, hresp, faults, hist>>
    /\ UNCHANGED rlvars

HandleNext ==
    \/ Tick
    \/ \E p \in Procs : HandleCall(p)
    \/ \E p \in Procs : HandlerEnter(p)
    \/ \E p \in Procs : WithdrawUpdate(p)
    \/ \E p \in Procs : WithdrawHasWallet(p)
    \/ \E p \in Procs : WithdrawInsertLedger(p)
    \/ \E p \in Procs : WithdrawCommit(p)
    \/ \E p \in Procs : HandleReturn(p)

HandlerSpec == HandleInit /\ [][HandleNext]_vars

\* ------------------------------------------- the limiter store called directly
\* configurations ratelimit.New accepts
\* values of the algorithm setting
AlgorithmStrings ==
    {<<>>, <<"sliding_window">>, <<" ", "SLIDING_WINDOW", " ">>, <<"fixed_window">>,
     <<"Fixed_Window", " ">>, <<"random">>, <<"sliding", " ", "window">>}

\* the Config of a limiter: its Algorithm is the parsed setting, or the setting
\* converted as it is by a caller that builds the Config itself
RateConfigs(value) ==
    [Algorithm : {parseRateLimitAlgorithm(value), value},
     Limit : 1..MaxLimit, Window : 2..MaxWindow, Burst : {0, 1}]

RateKey == <<"withdraw-api:withdraw", ":", "withdraw:user:", "u1">>

RateInit ==
    /\ clock = 0
    /\ wallets = (WalletUser :> [balance_minor |-> InitBalance, version |-> 0, updated_at |-> 0])
    /\ ledger = <<>>
    /\ idem = <<>>
    /\ pc = [p \in Procs |-> "idle"]
    /\ req = [p \in Procs |-> NullReq]
    /\ acq = [p \in Procs |-> NullAcq]
    /\ decision = [p \in Procs |-> NullDecision]
    /\ wtx = [p \in Procs |-> NullTx]
    /\ hresp = [p \in Procs |-> NullResponse]
    /\ resp = [p \in Procs |-> NullResponse]
    /\ faults = 0
    /\ hist = [p \in Procs |-> NullHist]
    /\ rl = <<>>
    /\ rlalg \in AlgorithmStrings
    /\ rlcfg \in {New(c) : c \in RateConfigs(rlalg)}
    /\ calls = <<>>
    /\ headers = [p \in Procs |-> <<>>]

RateTick ==
    /\ clock < MaxRateTime
    /\ clock' = clock + 1
    /\ UNCHANGED <<wallets, ledger, idem, pc, req, acq, decision, wtx, hresp, resp, faults, hist>>
    /\ UNCHANGED rlvars

\* time.Now() of the instances that call the store: the clock of the store, or
\* one that lags behind it
InstanceClocks == {t \in clock - MaxSkew .. clock : t >= 0}

\* one call of RedisStore.Allow on RateKey
StoreAllow ==
    /\ Len(calls) < MaxCalls
    /\ \E rnd \in Rand, now \in InstanceClocks :
        LET out == Allow(Lookup(rl, RateKey, clock), rlcfg, now, clock, rnd) IN
        /\ rl' = Stored(rl, RateKey, out.entry)
        /\ calls' = Append(calls, [at |-> clock, now |-> now, rnd |-> rnd,
                                   result |-> out.result])
    /\ UNCHANGED <<clock, wallets, ledger, idem, pc, req, acq, decision, wtx, hresp, resp, faults,
                   hist, rlalg, rlcfg, headers>>

RateNext == RateTick \/ StoreAllow

RateSpec == RateInit /\ [][RateNext]_vars

\* ------------------------------------------ the route with a stubbed limiter
\* Results a Limiter can return to the middleware: an allowed one, and denied
\* ones whose RetryAfter is negative, below one second, and one tick
StubResults ==
    {[Allowed |-> TRUE, Limit |-> 20, Remaining |-> 19, ResetAt |-> 2, RetryAfter |-> 0]}
        \cup {[Allowed |-> FALSE, Limit |-> 20, Remaining |-> 0, ResetAt |-> 2, RetryAfter |-> r] :
                   r \in {-1, 0, 1}}

StubInit == Init /\ rlcfg.Limit = 1

\* stubRateLimiter.AllowKey: the middleware gets the stub's result or its error
StubAllowKey(p) ==
    /\ pc[p] = "rate"
    /\ \/ \E result \in StubResults : RateLimited(p, FALSE, result)
       \/ RateLimited(p, TRUE, NullResult)
    /\ UNCHANGED <<clock, wallets, ledger, idem, req, acq, decision, wtx, hresp, faults,
                   rl, rlalg, rlcfg, calls>>

StubNext ==
    \/ Tick
    \/ \E p \in Procs : JWTEnter(p)
    \/ \E p \in Procs : StubAllowKey(p)
    \/ \E p \in Procs : IdempotencyEnter(p)
    \/ \E p \in Procs : AcquireSelect(p)
    \/ \E p \in Procs : AcquireInsert(p)
    \/ \E p \in Procs : AcquireCommitInsert(p)
    \/ \E p \in Procs : AcquireDecide(p)
    \/ \E p \in Procs : HandlerEnter(p)
    \/ \E p \in Procs : WithdrawUpdate(p)
    \/ \E p \in Procs : WithdrawHasWallet(p)
    \/ \E p \in Procs : WithdrawInsertLedger(p)
    \/ \E p \in Procs : WithdrawCommit(p)
    \/ \E p \in Procs : MiddlewareComplete(p)

StubSpec == StubInit /\ [][StubNext]_vars

\* ------------------------------------------- withdrawRequestHash on its own
\* the method as the router reports it, in mixed case with white space
\* around, and another method
HashMethods == {Method, <<" ", "Post", "\t">>, <<"GET">>}

HashPaths == {Path, <<" ">> \o Path \o <<"\n">>}

\* a principal, and the same with blanks around
HashUsers == {WalletUser, <<" ">> \o WalletUser \o <<" ">>}

\* bodies with two amounts, and the first with a blank before it
HashBodies == {RequestBody(1), RequestBody(2), <<" ">> \o RequestBody(1)}

HashInit == Init /\ rlcfg.Limit = 1

\* one call of withdrawRequestHash
HashCall ==
    /\ Len(calls) < MaxHashCalls
    /\ \E method \in HashMethods, path \in HashPaths, userID \in HashUsers, body \in HashBodies :
        calls' = Append(calls, [method |-> method, path |-> path, userID |-> userID,
                                body |-> body,
                                hash |-> withdrawRequestHash(method, path, userID, body)])
    /\ UNCHANGED <<clock, wallets, ledger, idem, pc, req, acq, decision, wtx, hresp, resp, faults,
                   hist, rl, rlalg, rlcfg, headers>>

HashNext == HashCall

HashSpec == HashInit /\ [][HashNext]_vars

\* ================================================================ properties
Hash(p) == IdemRequest(req[p]).RequestHash

Arrived(p) == pc[p] # "idle"

\* two requests with the same principal, idempotency key and payload
SameRequest(p, q) == p # q /\ Arrived(p) /\ Arrived(q) /\ req[p] = req[q]

\* two requests that address the same idempotency row
SameKey(p, q) == p # q /\ Arrived(p) /\ Arrived(q) /\ RowKey(req[p]) = RowKey(req[q])

Acquired(p) == ~decision[p].err /\ decision[p].Type = "acquired"

Returned(p) == decision[p] # NullDecision

RECURSIVE SumAmounts(_)
SumAmounts(S) ==
    IF S = {} THEN 0
    ELSE LET p == CHOOSE x \in S : TRUE IN req[p].amount + SumAmounts(S \ {p})

Succeeded == {p \in Procs : hist[p].result = "ok"}

\* C1: the committed balance_minor of every wallet is >= 0 in every reachable
\* state, whatever the interleaving of the withdrawals.
C1_BalanceNeverNegative == \A u \in DOMAIN wallets : wallets[u].balance_minor >= 0

C1_Witness ==
    \E p, q \in Procs :
        /\ hist[p].result = "ok"
        /\ hist[q].result = "insufficient_balance"
        /\ hist[q].prior = {}
        /\ wallets[WalletUser].balance_minor < req[q].amount

C3_ReplayLaw ==
    \A p, q \in Procs :
        (SameRequest(p, q) /\ p \in hist[q].prior /\ hist[p].stored /\ pc[q] = "done") =>
            /\ decision[q].Type = "replay"
            /\ resp[q] = resp[p]
            /\ ~hist[q].invoked
            /\ Len(ledger) = (IF resp[p].status = StatusOK THEN 1 ELSE 0)
            /\ resp[p].status = StatusOK =>
                   wallets[req[p].user].balance_minor = InitBalance - req[p].amount

C3_Witness ==
    \E p, q \in Procs :
        /\ SameRequest(p, q) /\ p \in hist[q].prior /\ hist[p].stored /\ pc[q] = "done"
        /\ resp[q].status = StatusOK
        /\ resp[q].body[1] = "withdrawal"
        /\ Len(ledger) = 1

\* C4 (as claimed): never more than one Acquire of a (scope, key) returns Acquired.
C4_NeverTwoAcquired ==
    \A p, q \in Procs : SameKey(p, q) => ~(Acquired(p) /\ Acquired(q))

\* C4 (amended): two Acquire calls of one (scope, key) that both return
\* Acquired read the clock at least lockTTL apart (the later one took over an
\* expired lock), and once any call has returned, some call has returned Acquired.
C4_OneAcquiredPerLockTerm ==
    \A p, q \in Procs :
        SameKey(p, q) =>
            /\ (Acquired(p) /\ Acquired(q)) =>
                   \/ acq[p].now >= acq[q].now + defaultLockTTL
                   \/ acq[q].now >= acq[p].now + defaultLockTTL
            /\ Returned(q) => (Acquired(p) \/ Acquired(q))

C4_Witness ==
    \E p, q \in Procs :
        /\ SameKey(p, q)
        /\ Acquired(p)
        /\ hist[q].prior = {}
        /\ Returned(q) /\ ~Acquired(q)

\* C5: a step that makes a withdraw succeed appends exactly one ledger entry,
\* of type withdrawal, with amount -a and the balance the wallet has right
\* after the debit; no other step touches the ledger.
C5_OneLedgerEntryPerWithdrawal ==
    [][\A p \in Procs :
          /\ (hist[p].result # "ok" /\ hist'[p].result = "ok") =>
                 /\ ledger' = Append(ledger,
                        [wallet_id |-> req[p].user, entry_type |-> "withdrawal",
                         amount_minor |-> 0 - req[p].amount,
                         balance_after_minor |-> wallets'[req[p].user].balance_minor])
                 /\ wallets'[req[p].user].balance_minor =
                        wallets[req[p].user].balance_minor - req[p].amount
          /\ (hist[p].result = "" /\ hist'[p].result \notin {"", "ok"}) => ledger' = ledger
          /\ ledger' # ledger => \E q \in Procs : hist[q].result # "ok" /\ hist'[q].result = "ok"
      ]_vars

C5_Witness ==
    \E p, q \in Procs :
        /\ hist[p].result = "ok"
        /\ hist[q].result \notin {"", "ok"}
        /\ Len(ledger) = 1

\* every committed debit has its ledger entry and every entry its debit
DebitsMatchLedger ==
    \A u \in DOMAIN wallets :
        LET rows == {i \in 1..Len(ledger) : ledger[i].wallet_id = u} IN
        /\ wallets[u].version = Cardinality(rows)
        /\ (Cardinality(rows) = 0) = (wallets[u].balance_minor = InitBalance)
        /\ \A i \in rows :
              ledger[i].balance_after_minor - ledger[i].amount_minor =
                  (IF \E j \in rows : j < i
                   THEN ledger[CHOOSE j \in rows : j < i /\ \A k \in rows : k < i => k <= j].balance_after_minor
                   ELSE InitBalance)
        /\ rows # {} =>
              ledger[CHOOSE j \in rows : \A k \in rows : k <= j].balance_after_minor =
                  wallets[u].balance_minor

\* C6: a withdraw transaction that fails after BEGIN leaves the committed
\* wallets and ledger as they were, and no committed state shows a debit
\* without its ledger entry or an entry without its debit.
C6_FailureRollsBack ==
    /\ []DebitsMatchLedger
    /\ [][\A p \in Procs :
             (hist[p].result = "" /\ hist'[p].result \notin {"", "ok"}) =>
                 (wallets' = wallets /\ ledger' = ledger)
         ]_vars

C6_Witness ==
    \E p \in Procs :
        /\ hist[p].result = "tx_failure"
        /\ wtx[p] # NullTx
        /\ wallets[WalletUser].balance_minor = InitBalance
        /\ ledger = <<>>

\* C7: a withdraw of more than the committed balance (met without an
\* infrastructure failure) fails with InsufficientBalance, is answered
\* 409 'insufficient balance', and changes neither the balance nor the ledger.
C7_OverdrawRejected ==
    /\ [](\A p \in Procs :
            (hist[p].balSeen >= 0 /\ req[p].amount > hist[p].balSeen
                 /\ hist[p].result # "" /\ ~hist[p].faulted) =>
                /\ hist[p].result = "insufficient_balance"
                /\ hresp[p] = JSONResponse(StatusConflict, ErrorBody("insufficient balance")))
    /\ [][\A p \in Procs :
             (hist'[p].balSeen >= 0 /\ req[p].amount > hist'[p].balSeen
                  /\ hist'[p] # hist[p]) =>
                 (wallets' = wallets /\ ledger' = ledger)
         ]_vars

C7_Witness ==
    \E p \in Procs :
        /\ hist[p].balSeen >= 0
        /\ req[p].amount > hist[p].balSeen
        /\ hist[p].result = "insufficient_balance"
        /\ pc[p] = "done"
        /\ resp[p].status = StatusConflict

\* C8: conflict law.  A request that arrives when a record of its (scope, key)
\* exists with another request hash gets Conflict and 409 'idempotency key
\* reused with different payload'; its handler does not run and none of its
\* steps changes a wallet, the ledger or the record.
C8_ConflictLaw ==
    /\ [](\A p \in Procs :
            (pc[p] = "done" /\ hist[p].rowAtArrival
                 /\ idem[RowKey(req[p])].request_hash # Hash(p)) =>
                /\ decision[p] = Decision("conflict")
                /\ resp[p] = JSONResponse(StatusConflict,
                                 ErrorBody("idempotency key reused with different payload"))
                /\ ~hist[p].invoked)
    /\ [][\A p \in Procs :
             (hist[p].rowAtArrival /\ idem[RowKey(req[p])].request_hash # Hash(p)
                  /\ pc'[p] # pc[p]) =>
                 (wallets' = wallets /\ ledger' = ledger /\ idem' = idem)
         ]_vars

C8_Witness ==
    \E p \in Procs :
        /\ pc[p] = "done"
        /\ hist[p].rowAtArrival
        /\ idem[RowKey(req[p])].request_hash # Hash(p)
        /\ idem[RowKey(req[p])].status = "completed"
        /\ decision[p].Type = "conflict"

\* C9: withdrawals on one wallet never debit more than the initial balance in
\* total, and one of them fails with InsufficientBalance only if its amount
\* exceeds the balance its conditional update saw, which needs the amounts of
\* the requests that reached the ledger to exceed the initial balance together.
C9_NoOverWithdraw ==
    /\ SumAmounts(Succeeded) <= InitBalance
    /\ wallets[WalletUser].balance_minor = InitBalance - SumAmounts(Succeeded)
    /\ \A p \in Procs :
          hist[p].result = "insufficient_balance" =>
              /\ req[p].amount > hist[p].balSeen
              /\ SumAmounts({q \in Procs : hist[q].invoked /\ req[q].user = req[p].user})
                     > InitBalance

C9_Witness ==
    \E p, q \in Procs :
        /\ req[p].user = WalletUser /\ req[q].user = WalletUser
        /\ req[p].key # req[q].key
        /\ hist[p].prior = {} /\ hist[q].prior = {}
        /\ hist[p].result = "ok"
        /\ hist[q].result = "insufficient_balance"

\* every outcome of Acquire the middleware can be handed, unknown types included
AllDecisions ==
    [err : BOOLEAN, Type : DecisionTypes \cup {"", "unknown"}, StatusCode : {0},
     Body : {<<>>}, ContentType : {<<>>}]

\* C10: the handler (and so the ledger transaction) runs for a request only
\* when Acquire returned Acquired; on Replay, InProgress, Conflict, an unknown
\* decision type, an Acquire error or a missing store it does not run, and the
\* request changes neither wallet nor ledger.
C10_HandlerOnlyWhenAcquired ==
    /\ \A p \in Procs :
          /\ (hist[p].invoked \/ pc[p] \in {"handler", "wd_update", "wd_exists", "wd_ledger",
                                            "wd_commit", "complete"}) => Acquired(p)
          /\ (pc[p] = "done" /\ ~Acquired(p)) =>
                 (~hist[p].invoked /\ hist[p].result = "" /\ wtx[p] = NullTx
                      /\ hresp[p] = NullResponse)
    /\ \A d \in AllDecisions :
          (d.err \/ d.Type \notin DecisionTypes) => IdempotencyDispatch(d) # "next"
    /\ \A u \in UserIDs, k \in Keys : IdempotencyGate(TRUE, u, k) # "acquire"

C10_Witness ==
    \E p, q \in Procs :
        /\ pc[p] = "done" /\ pc[q] = "done"
        /\ decision[p].err
        /\ ~hist[p].invoked
        /\ hist[q].invoked

\* the fixed status the handler gives to each outcome of the service
StatusOf(result) ==
    IF result = "ok" THEN StatusOK
    ELSE IF result = "invalid_amount" THEN StatusBadRequest
    ELSE IF result = "wallet_not_found" THEN StatusNotFound
    ELSE IF result = "insufficient_balance" THEN StatusConflict
    ELSE StatusInternalServerError

C12_CompletedResponseNeverReplaced ==
    [][\A rk \in DOMAIN idem :
          idem[rk].status = "completed" =>
              (idem'[rk].status = "completed" /\ idem'[rk].response = idem[rk].response)
      ]_vars

\* the Allow calls made less than one window after the first call on the key
InFirstWindow == {i \in 1..Len(calls) : calls[i].at < calls[1].at + rlcfg.Window}

\* C14 (as claimed): on a fresh key, with any of the three algorithms, the
\* first limit Allow calls of one window are allowed and call limit+1 of that
\* window is denied with retryAfter > 0.
C14_LimitPlusOneDenied ==
    \A i \in InFirstWindow :
        /\ i <= rlcfg.Limit => calls[i].result.Allowed
        /\ i = rlcfg.Limit + 1 =>
               (~calls[i].result.Allowed /\ calls[i].result.RetryAfter > 0)

\* the request has gone past the rate-limit middleware
PastRateLimit(p) == pc[p] \notin {"idle", "rate"} /\ hist[p].rate # ""

\* the request never got to Acquire, the handler or the withdraw transaction
NeverReachedCoordinator(p) ==
    /\ decision[p] = NullDecision
    /\ acq[p] = NullAcq
    /\ ~hist[p].invoked
    /\ hist[p].result = ""
    /\ wtx[p] = NullTx
    /\ hresp[p] = NullResponse

\* C13: the idempotency middleware is entered only by requests the limiter
\* allowed; a request the limiter denies is answered 429 'rate limit exceeded'
\* at once, never gets to Acquire or the handler, and its step changes no
\* idempotency record, wallet or ledger row.
C13_DeniedNeverReachesCoordinator ==
    /\ [](\A p \in Procs :
            /\ pc[p] \notin {"idle", "rate", "done"} => hist[p].rate = "allowed"
            /\ ~NeverReachedCoordinator(p) => hist[p].rate = "allowed"
            /\ hist[p].rate = "denied" =>
                   /\ pc[p] = "done"
                   /\ resp[p].status = StatusTooManyRequests
                   /\ SubSeq(resp[p].body, 1, 3) = <<"error", "rate limit exceeded", "retry_after">>
                   /\ resp[p].body[4] >= 1
                   /\ NeverReachedCoordinator(p))
    /\ [][\A p \in Procs :
             (hist[p].rate = "" /\ hist'[p].rate = "denied") =>
                 (idem' = idem /\ wallets' = wallets /\ ledger' = ledger)
         ]_vars

C13_Witness ==
    \E p, q \in Procs :
        /\ req[p].user = req[q].user
        /\ hist[q].result = "ok"
        /\ hist[p].rate = "denied"
        /\ resp[p].status = StatusTooManyRequests
        /\ DOMAIN idem = {RowKey(req[q])}

C19_MissingKeyRejected ==
    /\ [](\A p \in Procs :
            (PastRateLimit(p) /\ pc[p] # "idem" /\ hist[p].rate = "allowed"
                 /\ TrimSpace(req[p].key) = <<>>) =>
                /\ pc[p] = "done"
                /\ resp[p] = JSONResponse(StatusBadRequest, ErrorBody("missing idempotency key"))
                /\ NeverReachedCoordinator(p))
    /\ [][\A p \in Procs :
             (pc[p] = "idem" /\ pc'[p] # "idem" /\ TrimSpace(req'[p].key) = <<>>) =>
                 (idem' = idem /\ wallets' = wallets /\ ledger' = ledger)
         ]_vars

C19_Witness ==
    \E p, q \in Procs :
        /\ pc[p] = "done" /\ req[p].key = <<" ">>
        /\ resp[p].status = StatusBadRequest
        /\ req[q].user = req[p].user
        /\ hist[q].result = "ok"
        /\ DOMAIN idem = {RowKey(req[q])}

\* C20: when the rate-limit store cannot be reached, AllowKey returns an error
\* and no Result; the middleware answers 500 'internal server error', not 429,
\* and the request gets neither to the idempotency middleware nor to the handler.
C20_LimiterErrorIs500 ==
    /\ [](\A p \in Procs :
            hist[p].rate = "error" =>
                /\ pc[p] = "done"
                /\ resp[p] = JSONResponse(StatusInternalServerError, ErrorBody("internal server error"))
                /\ NeverReachedCoordinator(p))
    /\ [][\A p \in Procs :
             (hist[p].rate = "" /\ hist'[p].rate = "error") =>
                 (rl' = rl /\ idem' = idem /\ wallets' = wallets /\ ledger' = ledger)
         ]_vars

C20_Witness ==
    \E p, q \in Procs :
        /\ hist[p].rate = "error"
        /\ resp[p].status = StatusInternalServerError
        /\ req[q].user = req[p].user
        /\ hist[q].rate = "allowed"
        /\ hist[q].result = "ok"

\* C16: when the conditional update touches zero rows, the withdraw returns
\* WalletNotFound (404 'wallet not found') exactly when the user has no wallet
\* and InsufficientBalance (409) exactly when a wallet exists; a withdraw for a
\* user id without a wallet that meets no infrastructure failure is answered
\* 404, and it changes neither wallets nor ledger.
C16_ZeroRowsDistinguished ==
    /\ [][\A p \in Procs :
             (pc[p] = "wd_exists" /\ pc'[p] = "complete" /\ ~hist'[p].faulted) =>
                 /\ hist'[p].result = "wallet_not_found" <=> req[p].user \notin DOMAIN wallets
                 /\ hist'[p].result = "insufficient_balance" <=> req[p].user \in DOMAIN wallets
                 /\ hist'[p].result \in {"wallet_not_found", "insufficient_balance"}
                 /\ hresp'[p] = IF req[p].user \in DOMAIN wallets
                                THEN JSONResponse(StatusConflict, ErrorBody("insufficient balance"))
                                ELSE JSONResponse(StatusNotFound, ErrorBody("wallet not found"))
                 /\ wallets' = wallets
                 /\ ledger' = ledger
         ]_vars
    /\ [](\A p \in Procs :
            (hist[p].result # "" /\ ~hist[p].faulted /\ hist[p].balSeen = -1) =>
                hresp[p] = JSONResponse(StatusNotFound, ErrorBody("wallet not found")))
    /\ [][\A p \in Procs :
             (pc[p] \in {"handler", "wd_update", "wd_exists", "wd_ledger", "wd_commit"}
                  /\ pc'[p] # pc[p] /\ req[p].user \notin DOMAIN wallets) =>
                 (wallets' = wallets /\ ledger' = ledger)
         ]_vars

C16_Witness ==
    \E p, q \in Procs :
        /\ req[p].user = OtherUser
        /\ hist[p].balSeen = -1
        /\ hist[p].result = "wallet_not_found"
        /\ hresp[p] = JSONResponse(StatusNotFound, ErrorBody("wallet not found"))
        /\ req[q].user = WalletUser
        /\ hist[q].result = "ok"
        /\ Len(ledger) = 1

\* a request whose user_id local and body got it to the service
ReachedService(p) == hist[p].result # "" /\ req[p].user # <<>> /\ req[p].json

\* the input violates a precondition of the withdraw
InvalidInput(p) == ~IsUUID(req[p].user) \/ req[p].amount <= 0

ClientError(status) == status \in 400..499

\* C17: a withdraw whose userID does not parse as an account identifier, or
\* whose amountMinor is not positive, fails with a client error, not with an
\* infrastructure failure, before any transaction starts; wallets and ledger
\* stay as they were.
C17_InvalidInputIsClientError ==
    /\ [](\A p \in Procs :
            (ReachedService(p) /\ InvalidInput(p)) =>
                /\ ClientError(hresp[p].status)
                /\ hist[p].balSeen = -1
                /\ ~hist[p].faulted)
    /\ [][\A p \in Procs :
             (pc[p] = "handler" /\ pc'[p] # "handler" /\ InvalidInput(p)) =>
                 (pc'[p] = "complete" /\ wallets' = wallets /\ ledger' = ledger)
         ]_vars

\* status and message Handle answers with, per outcome
FixedAnswer(result) ==
    IF result = "unauthenticated" THEN <<StatusUnauthorized, "missing authenticated user">>
    ELSE IF result = "invalid_body" THEN <<StatusBadRequest, "invalid request body">>
    ELSE IF result = "invalid_amount" THEN <<StatusBadRequest, "amount_minor must be greater than 0">>
    ELSE IF result = "wallet_not_found" THEN <<StatusNotFound, "wallet not found">>
    ELSE IF result = "insufficient_balance" THEN <<StatusConflict, "insufficient balance">>
    ELSE <<StatusInternalServerError, "internal server error">>

\* C18: the handler answers every outcome of the service with one fixed status
\* and message: success 200, invalid amount 400, wallet not found 404,
\* insufficient balance 409, any other error 500 'internal server error'; the
\* text of the underlying error is no part of the response.
C18_FixedStatusAndMessage ==
    \A p \in Procs :
        hist[p].result # "" =>
            /\ hist[p].result = "ok" <=> hresp[p].status = StatusOK
            /\ hist[p].result # "ok" =>
                   /\ hresp[p].status = FixedAnswer(hist[p].result)[1]
                   /\ hresp[p].body = <<"error", FixedAnswer(hist[p].result)[2]>>
            /\ hist[p].result \in {"invalid_user_id", "tx_failure"} =>
                   /\ hresp[p].status = StatusInternalServerError
                   /\ \A i \in 1..Len(hresp[p].body) : hresp[p].body[i] # ErrorText(hist[p].result)

C18_Witness ==
    \E p, q \in Procs :
        /\ hist[p].result = "invalid_user_id"
        /\ hresp[p] = JSONResponse(StatusInternalServerError, ErrorBody("internal server error"))
        /\ hist[q].result = "tx_failure"
        /\ hresp[q].status = StatusInternalServerError

\* the settings that spell an algorithm name, in any case and with blanks around
SlidingWindowSettings == {<<"sliding_window">>, <<" ", "SLIDING_WINDOW", " ">>}

FixedWindowSettings == {<<"fixed_window">>, <<"Fixed_Window", " ">>}

SelectedAlgorithm ==
    IF rlalg \in SlidingWindowSettings THEN <<"sliding_window">>
    ELSE IF rlalg \in FixedWindowSettings THEN <<"fixed_window">>
    ELSE <<"token_bucket">>

\* C21: the algorithm setting always selects an algorithm: 'sliding_window' and
\* 'fixed_window', in any case and with blanks around, select those two, every
\* other setting (empty, unrecognised) selects token bucket; and Allow of the
\* store runs the token bucket for an Algorithm value it does not recognise.
C21_AlgorithmSelectionTotal ==
    /\ [](rlcfg.Algorithm \in {SelectedAlgorithm, rlalg})
    /\ [][calls' # calls =>
             LET entry == Lookup(rl, RateKey, clock)
                 call == calls'[Len(calls')]
                 script == IF rlcfg.Algorithm = <<"sliding_window">>
                           THEN slidingWindow(entry, rlcfg, call.now, clock, call.rnd)
                           ELSE IF rlcfg.Algorithm = <<"fixed_window">>
                           THEN fixedWindow(entry, rlcfg, call.now, clock)
                           ELSE tokenBucket(entry, rlcfg, call.now, clock)
             IN /\ call.result = script.result
                /\ rl'[RateKey] = script.entry
         ]_vars

C21_Witness ==
    /\ rlalg = <<" ", "SLIDING_WINDOW", " ">>
    /\ rlcfg.Algorithm = <<"sliding_window">>
    /\ rlcfg.Limit = 1
    /\ Len(calls) = 2
    /\ calls[1].result.Allowed
    /\ ~calls[2].result.Allowed
    /\ calls[2].result.RetryAfter = rlcfg.Window

\* Acquire has returned to the middleware of p
AcquireReturned(p) == decision[p].err \/ decision[p].Type # ""

\* C22 (as claimed): of the Acquire calls made with the same scope, key and
\* request hash, in any interleaving, none returns an error, and every call
\* other than the one that returns Acquired returns InProgress or Replay.
C22_ConcurrentAcquireNeverErrs ==
    \A p, q \in Procs :
        (SameRequest(p, q) /\ AcquireReturned(p) /\ AcquireReturned(q)) =>
            /\ ~decision[p].err
            /\ decision[p].Type = "acquired" => decision[q].Type \in {"in_progress", "replay"}

\* the record of the key of p is in_progress with the hash of p, and its lock
\* had expired when the Acquire of p read the clock
StaleFor(p) ==
    /\ RowKey(req[p]) \in DOMAIN idem
    /\ idem[RowKey(req[p])].status = "in_progress"
    /\ idem[RowKey(req[p])].request_hash = Hash(p)
    /\ idem[RowKey(req[p])].locked_until <= acq[p].now

\* the record of the key of p is completed
CompletedFor(p) ==
    RowKey(req[p]) \in DOMAIN idem /\ idem[RowKey(req[p])].status = "completed"

\* C23: an Acquire that finds the record of its key in_progress with its own
\* request hash and with locked_until not after its now returns Acquired and
\* stores locked_until = now + lockTTL; so a retry that starts after the lock
\* TTL has run out is Acquired in the end, unless the record was completed
\* before it got to read it.
C23_StaleLockReacquired ==
    /\ [][\A p \in Procs :
             (pc[p] = "acq_decide" /\ pc'[p] # "acq_decide" /\ StaleFor(p)) =>
                 /\ decision'[p] = Decision("acquired")
                 /\ pc'[p] = "handler"
                 /\ idem'[RowKey(req[p])].status = "in_progress"
                 /\ idem'[RowKey(req[p])].locked_until = acq[p].now + defaultLockTTL
                 /\ idem'[RowKey(req[p])].locked_until > idem[RowKey(req[p])].locked_until
         ]_vars
    /\ \A p \in Procs :
           (pc[p] \in {"acq_select", "acq_decide"} /\ StaleFor(p))
               ~> (decision[p].Type = "acquired" \/ CompletedFor(p))

C23_Witness ==
    \E p, q \in Procs :
        /\ SameRequest(p, q)
        /\ decision[p].Type = "acquired"
        /\ decision[q].Type = "acquired"
        /\ acq[q].existing.status = "in_progress"
        /\ acq[q].existing.locked_until = acq[p].lockUntil
        /\ idem[RowKey(req[q])].locked_until = acq[q].now + defaultLockTTL
        /\ idem[RowKey(req[q])].status = "in_progress"

\* the request of p was Acquired, its handler has returned and its Complete failed
CompleteFailed(p) ==
    pc[p] = "done" /\ decision[p].Type = "acquired" /\ hist[p].result # "" /\ ~hist[p].stored

\* C24: when Acquire returned Acquired, the handler returned without error and
\* Complete fails, the client gets 500 'failed to persist idempotency
\* response' in place of the response of the handler, whatever its status.
C24_CompleteFailureSubstitutes ==
    /\ [](\A p \in Procs :
            CompleteFailed(p) =>
                resp[p] = JSONResponse(StatusInternalServerError,
                                       ErrorBody("failed to persist idempotency response")))
    /\ [][\A p \in Procs :
             (pc[p] = "complete" /\ pc'[p] = "done" /\ ~hist'[p].stored) => idem' = idem
         ]_vars

C24_Witness ==
    \E p \in Procs :
        /\ CompleteFailed(p)
        /\ hist[p].result = "ok"
        /\ hresp[p].status = StatusOK
        /\ resp[p].status = StatusInternalServerError
        /\ wallets[req[p].user].balance_minor = InitBalance - req[p].amount
        /\ idem[RowKey(req[p])].status = "in_progress"

\* C25 (as claimed): when the withdraw on the Acquired path fails with an
\* infrastructure failure and the Complete after it fails too, the client
\* gets the failure response of the handler (500 'internal server error'),
\* not one the idempotency middleware puts in its place.
C25_InFlightFailureKept ==
    \A p \in Procs :
        (CompleteFailed(p) /\ hist[p].result = "tx_failure") =>
            resp[p] = JSONResponse(StatusInternalServerError, ErrorBody("internal server error"))

\* the record Complete of p addresses is absent or carries another request hash
NoRecordFor(p) ==
    RowKey(req[p]) \notin DOMAIN idem \/ idem[RowKey(req[p])].request_hash # Hash(p)

\* C26: Complete called with a scope and key that have no record, or with a
\* request hash other than the stored one, changes no record and returns an
\* error, which is 'key not found for completion' when the UPDATE itself ran;
\* it never returns nil.
C26_CompleteWithoutRecordErrs ==
    [][\A p \in Procs :
          (pc[p] = "complete" /\ pc'[p] = "done" /\ NoRecordFor(p)) =>
              /\ idem' = idem
              /\ hist'[p].completeErr # ""
              /\ ~hist'[p].stored
              /\ faults' = faults =>
                     hist'[p].completeErr = "idempotency: key not found for completion"
      ]_vars

C26_Witness ==
    \E p, q \in Procs :
        /\ pc[p] = "done"
        /\ hist[p].completeErr = "idempotency: key not found for completion"
        /\ RowKey(req[p]) = RowKey(req[q])
        /\ Hash(p) # Hash(q)
        /\ decision[q].Type = "acquired"
        /\ idem[RowKey(req[p])] = InsertedRow(Hash(q), acq[q].lockUntil)

\* p is inside Acquire
InAcquire(p) == pc[p] \in {"acq_select", "acq_insert", "acq_commit", "acq_decide"}

\* C27: an Acquire that returns Conflict, Replay or InProgress (or an error)
\* leaves withdraw_idempotency as it was; the table is written by the insert
\* and by the stale-lock reacquire only, which both return Acquired.
C27_OnlyAcquiredWrites ==
    [][\A p \in Procs :
          (InAcquire(p) /\ pc'[p] # pc[p]) =>
              /\ (decision'[p].err \/ decision'[p].Type \in {"conflict", "replay", "in_progress"})
                     => idem' = idem
              /\ idem' # idem =>
                     /\ decision'[p].Type = "acquired"
                     /\ \A rk \in DOMAIN idem : rk # RowKey(req[p]) => idem'[rk] = idem[rk]
      ]_vars

C27_Witness ==
    \E p, q \in Procs :
        /\ decision[p].Type = "acquired"
        /\ decision[q].Type = "in_progress"
        /\ acq[q].now = acq[p].now
        /\ clock > acq[q].now
        /\ RowKey(req[p]) = RowKey(req[q])
        /\ idem[RowKey(req[p])] = InsertedRow(Hash(p), acq[p].lockUntil)

\* the withdrawal entries of a wallet, in commit order
RECURSIVE EntriesOf(_, _)
EntriesOf(entries, userID) ==
    IF entries = <<>> THEN <<>>
    ELSE IF Head(entries).wallet_id = userID /\ Head(entries).entry_type = "withdrawal"
    THEN <<Head(entries)>> \o EntriesOf(Tail(entries), userID)
    ELSE EntriesOf(Tail(entries), userID)

Abs(n) == IF n < 0 THEN 0 - n ELSE n

RECURSIVE SumOfAmounts(_)
SumOfAmounts(entries) ==
    IF entries = <<>> THEN 0 ELSE Abs(Head(entries).amount_minor) + SumOfAmounts(Tail(entries))

\* C28: conservation.  In every committed state, for every wallet, the initial
\* balance less the current balance_minor is the sum of the absolute amounts of
\* its withdrawal ledger entries; the balance_after_minor values of the
\* entries, in commit order, decrease strictly and end at the current balance.
C28_Conservation ==
    \A u \in DOMAIN wallets :
        LET entries == EntriesOf(ledger, u) IN
        /\ InitBalance - wallets[u].balance_minor = SumOfAmounts(entries)
        /\ \A i \in 1..Len(entries) - 1 :
               entries[i].balance_after_minor > entries[i + 1].balance_after_minor
        /\ entries # <<>> => entries[Len(entries)].balance_after_minor = wallets[u].balance_minor
        /\ \A i \in 1..Len(ledger) : ledger[i].wallet_id \in DOMAIN wallets

C28_Witness ==
    /\ Len(EntriesOf(ledger, WalletUser)) = 2
    /\ ledger[1].balance_after_minor = InitBalance - 2
    /\ ledger[2].balance_after_minor = 0
    /\ wallets[WalletUser].balance_minor = 0
    /\ wallets[WalletUser].version = 2

\* C29: completed is absorbing.  No step sets a completed record back to
\* in_progress, and every Acquire with the scope, key and request hash of a
\* completed record that reads it returns Replay with the stored response,
\* never Acquired or InProgress, whatever the stored status code and however
\* long ago locked_until passed.
C29_CompletedAbsorbing ==
    /\ [][\A rk \in DOMAIN idem :
             idem[rk].status = "completed" =>
                 (idem'[rk].status = "completed" /\ idem'[rk].request_hash = idem[rk].request_hash)
         ]_vars
    /\ [][\A p \in Procs :
             (pc[p] = "acq_select" /\ pc'[p] # pc[p] /\ CompletedFor(p)) =>
                 (pc'[p] = "acq_decide" /\ acq'[p].existing = idem[RowKey(req[p])])
         ]_vars
    /\ [][\A p \in Procs :
             (pc[p] = "acq_decide" /\ pc'[p] # pc[p] /\ CompletedFor(p)
                  /\ idem[RowKey(req[p])].request_hash = Hash(p)) =>
                 /\ decision'[p] = [err |-> FALSE, Type |-> "replay",
                                    StatusCode |-> idem[RowKey(req[p])].response.status,
                                    Body |-> idem[RowKey(req[p])].response.body,
                                    ContentType |-> idem[RowKey(req[p])].response.ctype]
                 /\ pc'[p] = "done"
                 /\ idem' = idem
         ]_vars

C29_Witness ==
    \E p, q \in Procs :
        /\ SameRequest(p, q)
        /\ decision[p].Type = "acquired"
        /\ hist[p].stored
        /\ decision[q].Type = "replay"
        /\ decision[q].StatusCode = StatusInternalServerError
        /\ acq[q].now > idem[RowKey(req[q])].locked_until
        /\ idem[RowKey(req[q])].status = "completed"

\* C30: the comparison of the request hash comes first.  An Acquire whose
\* request hash differs from the stored one returns Conflict and writes
\* nothing, whether the record is completed, in_progress with a live lock or
\* in_progress with an expired lock; the request_hash of a record never
\* changes, so another payload never takes over a stale lock.
C30_HashComparedFirst ==
    /\ [][\A p \in Procs :
             (pc[p] = "acq_decide" /\ pc'[p] # pc[p]
                  /\ idem[RowKey(req[p])].request_hash # Hash(p)) =>
                 /\ decision'[p] = Decision("conflict")
                 /\ pc'[p] = "done"
                 /\ idem' = idem
         ]_vars
    /\ [][\A rk \in DOMAIN idem : idem'[rk].request_hash = idem[rk].request_hash]_vars

C30_Witness ==
    \E p, q \in Procs :
        /\ decision[p].Type = "acquired"
        /\ decision[q].Type = "conflict"
        /\ RowKey(req[p]) = RowKey(req[q])
        /\ Hash(p) # Hash(q)
        /\ acq[q].now >= acq[p].lockUntil
        /\ idem[RowKey(req[q])] = InsertedRow(Hash(p), acq[p].lockUntil)

\* C31: idempotency keys are partitioned by principal.  Every record lies in
\* the scope of the user whose request created it; a request is answered
\* Conflict, InProgress or Replay only on account of a record a request of the
\* same user created, so with the same key used by two users each of them is
\* Acquired, and a replayed response is one stored for the same user.
C31_KeysPartitionedByPrincipal ==
    /\ \A rk \in DOMAIN idem :
           \E p \in Procs : /\ rk = <<<<"withdraw:">> \o req[p].user, TrimSpace(req[p].key)>>
                            /\ decision[p].Type = "acquired"
    /\ \A p \in Procs :
           (AcquireReturned(p) /\ (decision[p].err
                                       \/ decision[p].Type \in {"conflict", "in_progress", "replay"})) =>
               \E q \in Procs \ {p} :
                   /\ req[q].user = req[p].user
                   /\ TrimSpace(req[q].key) = TrimSpace(req[p].key)
                   /\ InAcquire(q) \/ decision[q].Type = "acquired"
    /\ \A p \in Procs :
           (pc[p] = "done" /\ decision[p].Type = "replay") =>
               \E q \in Procs \ {p} : req[q].user = req[p].user /\ hist[q].stored
                                      /\ resp[p] = hresp[q]

C31_Witness ==
    \E p, q \in Procs :
        /\ req[p].user = WalletUser
        /\ req[q].user = OtherUser
        /\ req[p].key = req[q].key
        /\ req[p].amount = req[q].amount
        /\ decision[p].Type = "acquired"
        /\ decision[q].Type = "acquired"
        /\ hist[p].stored /\ hist[q].stored
        /\ resp[p].status = StatusOK
        /\ resp[q].status = StatusNotFound
        /\ Cardinality(DOMAIN idem) = 2

\* the calls the store allowed while its clock was in [from, to)
AllowedIn(from, to) ==
    {i \in 1..Len(calls) : calls[i].result.Allowed /\ from <= calls[i].at /\ calls[i].at < to}

\* C32: with the fixed-window algorithm at most limit requests of a key are
\* allowed inside one counter window (from the first increment until the key
\* expires), and at most 2 x limit in any time interval of length window.
C32_FixedWindowBounds ==
    rlcfg.Algorithm = AlgorithmFixedWindow =>
        /\ RateKey \in DOMAIN rl =>
               LET first == rl[RateKey].expires - rlcfg.Window
                   inWindow == {i \in 1..Len(calls) : first <= calls[i].at}
               IN /\ Cardinality(inWindow) = rl[RateKey].count
                  /\ Cardinality(AllowedIn(first, rl[RateKey].expires))
                         = Min(rl[RateKey].count, rlcfg.Limit)
                  /\ \A i \in inWindow : calls[i].at < rl[RateKey].expires
        /\ \A t \in 0..MaxRateTime :
               Cardinality(AllowedIn(t, t + rlcfg.Window)) <= 2 * rlcfg.Limit

\* two counter windows meet: the current one is full, and an interval of
\* length window holds more than limit allowed calls
C32_Witness ==
    /\ rlcfg.Algorithm = AlgorithmFixedWindow
    /\ RateKey \in DOMAIN rl
    /\ rl[RateKey].count = rlcfg.Limit
    /\ \E t \in 0..MaxRateTime : Cardinality(AllowedIn(t, t + rlcfg.Window)) > rlcfg.Limit

\* C33: with the sliding-window algorithm the stored set holds at most limit
\* timestamps after any sequence of Allow calls, all newer than now - window
\* for the now of the last call, so that in any time interval of length window
\* at most limit requests are allowed.
C33_SlidingWindowBounds ==
    (rlcfg.Algorithm = AlgorithmSlidingWindow /\ RateKey \in DOMAIN rl) =>
        /\ Cardinality(rl[RateKey].members) <= rlcfg.Limit
        /\ \A m \in rl[RateKey].members : m[1] > calls[Len(calls)].now - rlcfg.Window
        /\ \A t \in 0..MaxRateTime :
               Cardinality(AllowedIn(t, t + rlcfg.Window)) <= rlcfg.Limit

\* C34: with the token-bucket algorithm the stored token count satisfies
\* 0 <= tokens <= burst after any sequence of Allow calls on a key, whichever
\* instances made them with their own clock values.  (The model stores the
\* count multiplied by the window, so that it stays an integer.)
C34_TokensWithinBounds ==
    (rlcfg.Algorithm = AlgorithmTokenBucket /\ RateKey \in DOMAIN rl) =>
        /\ 0 <= rl[RateKey].tokens
        /\ rl[RateKey].tokens <= rlcfg.Burst * rlcfg.Window

\* the limiter key ends with the user id
KeyOfUser(k, userID) ==
    /\ Len(k) > Len(userID)
    /\ SubSeq(k, Len(k) - Len(userID) + 1, Len(k)) = userID

\* the rate-limit middleware returns for request p in this step
RateLimitReturns(p) == pc[p] = "rate" /\ pc'[p] # "rate"

\* C35: rate limits are enforced per principal.  A request changes the
\* limiter state of no key but the one of its own authenticated user id, and
\* is denied only after an earlier request of the same user was allowed:
\* requests of user A never cause a request of user B to be denied.
C35_RateLimitPerPrincipal ==
    [][\A p \in Procs :
          RateLimitReturns(p) =>
              /\ \A k \in DOMAIN rl' :
                     (k \notin DOMAIN rl \/ rl'[k] # rl[k]) => KeyOfUser(k, req[p].user)
              /\ DOMAIN rl \subseteq DOMAIN rl'
              /\ hist'[p].rate = "denied" =>
                     \E q \in Procs \ {p} : /\ req[q].user = req[p].user
                                             /\ hist[q].rate = "allowed"
      ]_vars

\* user A has used up its quota of one request, and a request of user B made
\* at the same time is allowed
C35_Witness ==
    \E p, q \in Procs :
        /\ rlcfg.Limit = 1 /\ clock = 0
        /\ req[p].user = WalletUser /\ hist[p].rate = "allowed"
        /\ req[q].user = OtherUser /\ hist[q].rate = "allowed"
        /\ \A k \in DOMAIN rl : rl[k].tokens = 0
        /\ Cardinality(DOMAIN rl) = 2

\* the withdrawal of request p returns to the handler in this step
WithdrawalReturns(p) == hist[p].result = "" /\ hist'[p].result # ""

\* C36: a wallet's version counter increases by exactly 1 on every successful
\* withdrawal and is unchanged by every failed one, so in every committed
\* state version - initial version (0 in every initial state) equals the
\* number of withdrawal ledger entries of that wallet.
C36_VersionCountsWithdrawals ==
    /\ [](\A u \in DOMAIN wallets : wallets[u].version - 0 = Len(EntriesOf(ledger, u)))
    /\ [][\A p \in Procs :
             WithdrawalReturns(p) =>
                 \A u \in DOMAIN wallets :
                     wallets'[u].version =
                         IF hist'[p].result = "ok" /\ u = req[p].user
                         THEN wallets[u].version + 1
                         ELSE wallets[u].version
         ]_vars
    /\ [][(\E u \in DOMAIN wallets : wallets'[u].version # wallets[u].version) =>
              \E p \in Procs : WithdrawalReturns(p) /\ hist'[p].result = "ok"
         ]_vars

\* one withdrawal succeeded, one found the balance insufficient
C36_Witness ==
    \E p, q \in Procs :
        /\ hist[p].result = "ok"
        /\ hist[q].result = "insufficient_balance"
        /\ wallets[WalletUser].version = 1
        /\ Len(EntriesOf(ledger, WalletUser)) = 1

\* C37: the ledger and the idempotency table are append-only for the
\* application.  No step changes or removes an existing wallet_ledger entry
\* and no step removes an idempotency record: both only grow.
C37_AppendOnly ==
    [][/\ Len(ledger') >= Len(ledger)
       /\ \A i \in 1..Len(ledger) : ledger'[i] = ledger[i]
       /\ DOMAIN idem \subseteq DOMAIN idem'
      ]_vars

\* two withdrawals are in the ledger and both their records are completed
C37_Witness ==
    /\ Len(ledger) = 2
    /\ Cardinality(DOMAIN idem) = 2
    /\ \A rk \in DOMAIN idem : idem[rk].status = "completed"

\* strconv.Atoi of a header value; -1 when it is not a decimal number
RECURSIVE Atoi(_)
Atoi(s) ==
    IF s = <<>> \/ \E i \in 1..Len(s) : \A d \in 1..10 : Digits[d] # s[i] THEN -1
    ELSE IF Len(s) = 1 THEN (CHOOSE d \in 1..10 : Digits[d] = s[1]) - 1
    ELSE Atoi(SubSeq(s, 1, Len(s) - 1)) * 10
             + (CHOOSE d \in 1..10 : Digits[d] = s[Len(s)]) - 1

\* the response of request p has gone out
Answered(p) == pc[p] = "done"

\* C38: every response of the rate-limited route for which the limiter
\* returned a result carries X-RateLimit-Limit, X-RateLimit-Remaining and
\* X-RateLimit-Reset; every 429 also carries a Retry-After header whose
\* value is an integer >= 1 equal to the body's retry_after, even when the
\* limiter's RetryAfter is below one second.
C38_RateLimitHeaders ==
    \A p \in Procs :
        /\ (Answered(p) /\ hist[p].rate \in {"allowed", "denied"}) =>
               {"X-RateLimit-Limit", "X-RateLimit-Remaining", "X-RateLimit-Reset"}
                   \subseteq DOMAIN headers[p]
        /\ (Answered(p) /\ resp[p].status = StatusTooManyRequests) =>
               /\ "Retry-After" \in DOMAIN headers[p]
               /\ Atoi(headers[p]["Retry-After"]) >= 1
               /\ resp[p].body = <<"error", "rate limit exceeded",
                                   "retry_after", Atoi(headers[p]["Retry-After"])>>
        /\ (Answered(p) /\ hist[p].rate = "denied") => resp[p].status = StatusTooManyRequests

\* one request was denied with a RetryAfter below one second and answered
\* Retry-After: 1; the other was allowed and answered by the handler
C38_Witness ==
    \E p, q \in Procs :
        /\ Answered(p) /\ hist[p].rate = "denied"
        /\ headers[p]["Retry-After"] = <<"1">>
        /\ resp[p].body[4] = 1
        /\ Answered(q) /\ hist[q].rate = "allowed" /\ hist[q].result = "ok"
        /\ headers[q]["X-RateLimit-Remaining"] = <<"1", "9">>

\* method upper-cased and trimmed, path trimmed, principal id trimmed
NormalisedHead(c) == <<ToUpper(TrimSpace(c.method)), TrimSpace(c.path), TrimSpace(c.userID)>>

\* C39: withdrawRequestHash depends only on the normalised tuple (method
\* upper-cased and trimmed, path trimmed, principal id trimmed, raw body): two
\* requests that differ only in method case or in surrounding white space of
\* method, path or principal get the same hash, and two requests that differ
\* in body bytes (and in nothing else of the tuple) get different hashes.
C39_HashOfNormalisedTuple ==
    \A i, j \in 1..Len(calls) :
        /\ (NormalisedHead(calls[i]) = NormalisedHead(calls[j]) /\ calls[i].body = calls[j].body)
               => calls[i].hash = calls[j].hash
        /\ (NormalisedHead(calls[i]) = NormalisedHead(calls[j]) /\ calls[i].body # calls[j].body)
               => calls[i].hash # calls[j].hash

\* the first two requests differ in method case and surrounding white space
\* only and have one hash; the third differs from the second in the body only
C39_Witness ==
    /\ Len(calls) = 3
    /\ calls[1].method = <<" ", "Post", "\t">> /\ calls[2].method = Method
    /\ calls[1].path # calls[2].path
    /\ calls[1].userID # calls[2].userID
    /\ calls[1].hash = calls[2].hash
    /\ [calls[3] EXCEPT !.body = calls[2].body, !.hash = calls[2].hash] = calls[2]
    /\ calls[3].hash # calls[2].hash
====
